---- MODULE Spec2Model ----
(***************************************************************************)
(* Team identity resolution and stats caching engine of the cbb predictor. *)
(* Strings are sequences of one-character strings, so that the string      *)
(* functions of lib/teamMatcher.ts and lib/statsService.ts are computed    *)
(* character by character, as the code computes them.                      *)
(***************************************************************************)
EXTENDS Integers, Sequences, FiniteSets, TLC

\* ------------------------------------------------------------------ bounds
\* Calls of getOrUpdateTeamStats started in one behaviour.
MaxCalls == 2
\* Calls among them, per call slot, that go to the schedule feed.
MaxFetches == 1
\* Advances of the wall clock in one behaviour.
MaxTicks == 1
\* most pieces a name handed to normalizeTeamName on its own is made of
MaxPieces == 3
\* longest name handed to calculateSimilarity on its own
MaxSimLen == 2
\* longest list of games handed to calculateAverages on its own
MaxGames == 3
\* games handed to buildStatsCache: one more than the five of last5Averages
MaxBuilt == 6

\* --------------------------------------------------------------- constants
CACHE_TTL == 6 * 60 * 60 * 1000
PRELOAD_GRACE_PERIOD == 10 * 60 * 1000
MAX_CONSECUTIVE_FAILURES == 3
\* daysBack of the full lookback (cache absent or empty) and of the refresh
FULL_LOOKBACK == 30
INCREMENTAL_LOOKBACK == 7
\* limit passed to findSimilarTeams
SUGGESTION_LIMIT == 5

\* ----------------------------------------------------------------- strings
LowerAlpha == <<"a","b","c","d","e","f","g","h","i","j","k","l","m",
                "n","o","p","q","r","s","t","u","v","w","x","y","z">>
UpperAlpha == <<"A","B","C","D","E","F","G","H","I","J","K","L","M",
                "N","O","P","Q","R","S","T","U","V","W","X","Y","Z">>
DigitChars == {"0","1","2","3","4","5","6","7","8","9"}
LowerSet == {LowerAlpha[i] : i \in 1..26}
UpperSet == {UpperAlpha[i] : i \in 1..26}

\* String.prototype.toLowerCase, one character
LowerChar(c) ==
  IF c \in UpperSet
  THEN LowerAlpha[CHOOSE i \in 1..26 : UpperAlpha[i] = c]
  ELSE c

\* String.prototype.toLowerCase
toLowerCase(s) == [i \in 1..Len(s) |-> LowerChar(s[i])]

\* \s of the regular expressions
IsSpace(c) == c = " "
\* \w of the regular expressions (the two sides of \b)
IsWordChar(c) == c \in LowerSet \cup UpperSet \cup DigitChars \cup {"_"}

\* s.replace(/[^...]/g, ''): the characters of s that are in keep, in order
RECURSIVE FilterChars(_, _)
FilterChars(s, keep) ==
  IF s = <<>> THEN <<>>
  ELSE IF Head(s) \in keep THEN <<Head(s)>> \o FilterChars(Tail(s), keep)
  ELSE FilterChars(Tail(s), keep)

\* every character that occurs in s
CharsOf(s) == {s[i] : i \in 1..Len(s)}

\* s.replace(/\./g, '')
StripDots(s) == FilterChars(s, CharsOf(s) \ {"."})

\* s.replace(/\s+/g, '-'): every maximal run of whitespace becomes one dash
RECURSIVE DashSpaces(_)
DashSpaces(s) ==
  IF s = <<>> THEN <<>>
  ELSE IF IsSpace(Head(s))
       THEN IF Len(s) > 1 /\ IsSpace(s[2])
            THEN DashSpaces(Tail(s))
            ELSE <<"-">> \o DashSpaces(Tail(s))
       ELSE <<Head(s)>> \o DashSpaces(Tail(s))

\* s.replace(/[^a-z0-9-]/g, '')
KeepSeoChars(s) == FilterChars(s, LowerSet \cup DigitChars \cup {"-"})

\* s.replace(/[^a-z0-9]/g, '')
KeepAlnum(s) == FilterChars(s, LowerSet \cup DigitChars)

\* String.prototype.trim
RECURSIVE TrimLeft(_)
TrimLeft(s) == IF s # <<>> /\ IsSpace(Head(s)) THEN TrimLeft(Tail(s)) ELSE s
RECURSIVE TrimRight(_)
TrimRight(s) ==
  IF s # <<>> /\ IsSpace(s[Len(s)]) THEN TrimRight(SubSeq(s, 1, Len(s) - 1)) ELSE s
trim(s) == TrimRight(TrimLeft(s))

\* String.prototype.startsWith / endsWith / includes
startsWith(s, p) == Len(p) <= Len(s) /\ SubSeq(s, 1, Len(p)) = p
endsWith(s, p) == Len(p) <= Len(s) /\ SubSeq(s, Len(s) - Len(p) + 1, Len(s)) = p
includes(s, p) == \E i \in 1..(Len(s) - Len(p) + 1) : SubSeq(s, i, i + Len(p) - 1) = p

\* s.split(/\s+/): the pieces between maximal runs of whitespace (a leading
\* or trailing run yields an empty first or last piece)
RECURSIVE SplitFrom(_, _)
SplitFrom(s, cur) ==
  IF s = <<>> THEN <<cur>>
  ELSE IF IsSpace(Head(s))
       THEN IF Len(s) > 1 /\ IsSpace(s[2])
            THEN SplitFrom(Tail(s), cur)
            ELSE <<cur>> \o SplitFrom(Tail(s), <<>>)
       ELSE SplitFrom(Tail(s), Append(cur, Head(s)))
splitSpaces(s) == SplitFrom(s, <<>>)

\* words.join('-')
RECURSIVE joinDash(_)
joinDash(words) ==
  IF words = <<>> THEN <<>>
  ELSE IF Len(words) = 1 THEN words[1]
  ELSE words[1] \o <<"-">> \o joinDash(Tail(words))

\* s.replace(/\bw\b/g, r): every occurrence of the word w that has a word
\* boundary on both sides, scanned left to right
RECURSIVE ReplaceWordFrom(_, _, _, _)
ReplaceWordFrom(s, i, w, r) ==
  IF i > Len(s) THEN <<>>
  ELSE IF /\ i + Len(w) - 1 <= Len(s)
          /\ SubSeq(s, i, i + Len(w) - 1) = w
          /\ (i = 1 \/ ~IsWordChar(s[i - 1]))
          /\ (i + Len(w) > Len(s) \/ ~IsWordChar(s[i + Len(w)]))
       THEN r \o ReplaceWordFrom(s, i + Len(w), w, r)
       ELSE <<s[i]>> \o ReplaceWordFrom(s, i + 1, w, r)
ReplaceWord(s, w, r) == ReplaceWordFrom(s, 1, w, r)

\* ------------------------------------------------------ lib/teamMatcher.ts
Min2(a, b) == IF a <= b THEN a ELSE b
Max2(a, b) == IF a >= b THEN a ELSE b

\* one row of the matrix of levenshteinDistance: row[j + 1] = matrix[i][j]
RECURSIVE LevRow(_, _, _, _, _)
LevRow(prev, c, s1, j, acc) ==
  IF j > Len(s1) THEN acc
  ELSE LET cell == IF c = s1[j]
                   THEN prev[j]
                   ELSE Min2(prev[j] + 1, Min2(acc[j] + 1, prev[j + 1] + 1))
       IN LevRow(prev, c, s1, j + 1, Append(acc, cell))

RECURSIVE LevRows(_, _, _, _)
LevRows(prev, s1, s2, i) ==
  IF i > Len(s2) THEN prev
  ELSE LET row == LevRow(prev, s2[i], s1, 1, <<i>>)
       IN IF Len(row) = 0 THEN row ELSE LevRows(row, s1, s2, i + 1)

levenshteinDistance(str1, str2) ==
  LET s1 == toLowerCase(str1)
      s2 == toLowerCase(str2)
      row0 == [j \in 1..(Len(s1) + 1) |-> j - 1]
  IN LevRows(row0, s1, s2, 1)[Len(s1) + 1]

\* calculateSimilarity returns 1 - distance / maxLength; the model keeps the
\* exact fraction num / den. den = 0 (both names empty) is the NaN of 0 / 0.
calculateSimilarity(name1, name2) ==
  LET distance == levenshteinDistance(name1, name2)
      maxLength == Max2(Len(name1), Len(name2))
  IN [num |-> maxLength - distance, den |-> maxLength]

\* sim > p / q, sim >= p / q (false for NaN, as every comparison with NaN)
SimGT(sim, p, q) == sim.den > 0 /\ sim.num * q > p * sim.den
SimGE(sim, p, q) == sim.den > 0 /\ sim.num * q >= p * sim.den

normalizeTeamName(name) ==
  LET a == toLowerCase(name)
      b == ReplaceWord(a, <<"u","n","i","v","e","r","s","i","t","y">>, <<>>)
      c == ReplaceWord(b, <<"c","o","l","l","e","g","e">>, <<>>)
      d == ReplaceWord(c, <<"s","t","a","t","e">>, <<"s","t">>)
      e == ReplaceWord(d, <<"u","n","i","v">>, <<>>)
      f == ReplaceWord(e, <<"u">>, <<>>)
  IN trim(KeepAlnum(f))

\* isLikelyMatch(name1, name2) with the default threshold 0.85
isLikelyMatch(name1, name2) ==
  LET norm1 == normalizeTeamName(name1)
      norm2 == normalizeTeamName(name2)
  IN \/ toLowerCase(name1) = toLowerCase(name2)
     \/ norm1 = norm2
     \/ SimGE(calculateSimilarity(norm1, norm2), 85, 100)
     \/ includes(norm1, norm2)
     \/ includes(norm2, norm1)

\* SuggestionBefore that compares the similarities alone, and the games
\* counts of equal similarities
SuggestionBefore_BySimilarity(a, b) ==
  LET cross == a.similarity.num * b.similarity.den
               - b.similarity.num * a.similarity.den
  IN IF cross = 0 THEN b.gamesCount - a.gamesCount < 0 ELSE cross > 0

\* the comparator of findSimilarTeams: negative when a sorts before b
\* (|a.similarity - b.similarity| < 0.05 compares the games counts)
SuggestionBefore(a, b) ==
  LET x == a.similarity
      y == b.similarity
      cross == x.num * y.den - y.num * x.den
      absCross == IF cross < 0 THEN -cross ELSE cross
  IN IF 20 * absCross < x.den * y.den
     THEN b.gamesCount - a.gamesCount < 0
     ELSE cross > 0

\* the date of a game whose contest carried no startDate (the empty string):
\* new Date('').getTime() is NaN
NoDate == 0

\* the comparator of buildStatsCache, new Date(b.date) - new Date(a.date):
\* negative when a is the more recent; NaN, which the sort reads as 0, when
\* one of the dates does not parse
DateBefore(a, b) == a.date # NoDate /\ b.date # NoDate /\ b.date < a.date

\* comparator(x, y) < 0 for the comparator of the sort `by`
Before(by, x, y) ==
  IF by = "date" THEN DateBefore(x, y) ELSE SuggestionBefore(x, y)

\* Array.prototype.sort as the engine of the build (V8) runs it on an array
\* of fewer than 64 elements: the run at the head of the array is found
\* (and reversed when it descends), then every later element is put in its
\* place by binary insertion.
RECURSIVE RunLength(_, _, _, _)
RunLength(by, a, descending, k) ==
  IF k >= Len(a) THEN k
  ELSE IF Before(by, a[k + 1], a[k]) = descending
       THEN RunLength(by, a, descending, k + 1)
       ELSE k

RECURSIVE Reversed(_)
Reversed(a) == IF a = <<>> THEN <<>> ELSE Append(Reversed(Tail(a)), Head(a))

RECURSIVE InsertionPoint(_, _, _, _, _)
InsertionPoint(by, a, pivot, left, right) ==
  IF left >= right THEN left
  ELSE LET mid == left + ((right - left) \div 2)
       IN IF Before(by, pivot, a[mid])
          THEN InsertionPoint(by, a, pivot, left, mid)
          ELSE InsertionPoint(by, a, pivot, mid + 1, right)

RECURSIVE BinaryInsertionSort(_, _, _)
BinaryInsertionSort(by, a, start) ==
  IF start > Len(a) THEN a
  ELSE LET left == InsertionPoint(by, a, a[start], 1, start)
       IN BinaryInsertionSort(by,
                              SubSeq(a, 1, left - 1) \o <<a[start]>>
                                \o SubSeq(a, left, start - 1)
                                \o SubSeq(a, start + 1, Len(a)),
                              start + 1)

ArraySort(by, a) ==
  IF Len(a) < 2 THEN a
  ELSE LET descending == Before(by, a[2], a[1])
           run == RunLength(by, a, descending, 2)
           head == IF descending THEN Reversed(SubSeq(a, 1, run))
                   ELSE SubSeq(a, 1, run)
       IN BinaryInsertionSort(by, head \o SubSeq(a, run + 1, Len(a)), run + 1)

SortSuggestions(a) == ArraySort("suggestion", a)

\* SelectSimilar with >= 0.4 for > 0.4
RECURSIVE SelectSimilar_Inclusive(_)
SelectSimilar_Inclusive(teams) ==
  IF teams = <<>> THEN <<>>
  ELSE IF SimGE(Head(teams).similarity, 4, 10)
       THEN <<Head(teams)>> \o SelectSimilar_Inclusive(Tail(teams))
       ELSE SelectSimilar_Inclusive(Tail(teams))

\* SelectSimilar with the threshold doubled: 0.8 for 0.4
RECURSIVE SelectSimilar_Strict(_)
SelectSimilar_Strict(teams) ==
  IF teams = <<>> THEN <<>>
  ELSE IF SimGT(Head(teams).similarity, 8, 10)
       THEN <<Head(teams)>> \o SelectSimilar_Strict(Tail(teams))
       ELSE SelectSimilar_Strict(Tail(teams))

RECURSIVE SelectSimilar(_)
SelectSimilar(teams) ==
  IF teams = <<>> THEN <<>>
  ELSE IF SimGT(Head(teams).similarity, 4, 10)
       THEN <<Head(teams)>> \o SelectSimilar(Tail(teams))
       ELSE SelectSimilar(Tail(teams))

findSimilarTeams(searchName, availableTeams, limit) ==
  LET scored == [i \in 1..Len(availableTeams) |->
                  [teamId |-> availableTeams[i].teamId,
                   teamName |-> availableTeams[i].teamName,
                   gamesCount |-> availableTeams[i].gamesCount,
                   similarity |-> calculateSimilarity(searchName,
                                                      availableTeams[i].teamName)]]
      sorted == SortSuggestions(SelectSimilar(scored))
  IN SubSeq(sorted, 1, Min2(limit, Len(sorted)))

\* ---------------------------------------- lib/statsService.ts: name variants
toSeoName(name) == KeepSeoChars(DashSpaces(StripDots(toLowerCase(name))))

W_university == <<"u","n","i","v","e","r","s","i","t","y">>
W_college == <<"c","o","l","l","e","g","e">>
W_state == <<"s","t","a","t","e">>
W_st == <<"s","t">>
W_of == <<"o","f">>
W_the == <<"t","h","e">>
Sp == <<" ">>

\* for (const suffix of suffixes) if (coreName.endsWith(' ' + suffix)) ...
RECURSIVE StripSuffixes(_, _)
StripSuffixes(core, suffixes) ==
  IF suffixes = <<>> THEN core
  ELSE IF endsWith(core, Sp \o Head(suffixes))
       THEN StripSuffixes(trim(SubSeq(core, 1, Len(core) - (Len(Head(suffixes)) + 1))),
                          Tail(suffixes))
       ELSE StripSuffixes(core, Tail(suffixes))

\* for (const prefix of prefixes) if (coreName.startsWith(prefix)) ...
RECURSIVE StripPrefixes(_, _)
StripPrefixes(core, prefixes) ==
  IF prefixes = <<>> THEN core
  ELSE IF startsWith(core, Head(prefixes))
       THEN StripPrefixes(trim(SubSeq(core, Len(Head(prefixes)) + 1, Len(core))),
                          Tail(prefixes))
       ELSE StripPrefixes(core, Tail(prefixes))

Suffixes == <<W_university, W_college, W_state \o Sp \o W_university, W_state>>
Prefixes == <<W_university \o Sp \o W_of \o Sp,
              W_the \o Sp \o W_university \o Sp \o W_of \o Sp,
              W_college \o Sp \o W_of \o Sp,
              W_the \o Sp>>

\* the core name of a team name, in SEO form
CoreNameSeo(teamName) ==
  KeepSeoChars(DashSpaces(StripDots(
    StripPrefixes(StripSuffixes(toLowerCase(teamName), Suffixes), Prefixes))))

\* [...new Set(variants)]: first occurrences, in order
RECURSIVE Dedup(_, _)
Dedup(s, acc) ==
  IF s = <<>> THEN acc
  ELSE IF \E i \in 1..Len(acc) : acc[i] = Head(s)
       THEN Dedup(Tail(s), acc)
       ELSE Dedup(Tail(s), Append(acc, Head(s)))

generateSeoVariants(teamName) ==
  LET seoName == toSeoName(teamName)
      coreNameSeo == CoreNameSeo(teamName)
      words == splitSpaces(toLowerCase(teamName))
      v1 == <<seoName>>
      v2 == IF coreNameSeo # <<>> /\ coreNameSeo # seoName
            THEN Append(v1, coreNameSeo) ELSE v1
      v3 == IF Len(words) >= 2
               /\ words[2] \in {W_state, W_st, W_st \o <<".">>}
            THEN Append(v2, words[1] \o <<"-">> \o W_st) ELSE v2
      v4 == IF Len(words) >= 2 /\ Len(words[1]) > 3
            THEN Append(v3, StripDots(words[1])) ELSE v3
  IN Dedup(v4, <<>>)

\* ------------------------------------------------------------ the world
\* team names and ids the callers use
S_arizona == <<"a","r","i","z","o","n","a">>
S_iowa == <<"i","o","w","a">>
S_iona == <<"i","o","n","a">>
S_ua == <<"u","a">>
N_Arizona == <<"A","r","i","z","o","n","a">>
N_UnivOfArizona == <<"U","n","i","v","e","r","s","i","t","y"," ","o","f"," ",
                     "A","r","i","z","o","n","a">>
N_Iowa == <<"I","o","w","a">>
N_Iona == <<"I","o","n","a">>

\* (teamId, teamName) pairs handed to getOrUpdateTeamStats: the SEO name and
\* the full name of a team of the day's games
Requests ==
  { [teamId |-> S_arizona, teamName |-> N_Arizona],
    [teamId |-> S_ua, teamName |-> N_UnivOfArizona],
    [teamId |-> S_iowa, teamName |-> N_Iowa],
    [teamId |-> S_iona, teamName |-> N_Iona] }

\* The schedule feed: the games of the last days, by days before today. A
\* scoreboard entry carries the SEO names of both sides, the game detail the
\* teams of the contest, its start date (a larger date is more recent) and
\* the points of the requested team in each half.
Schedule ==
  << [gameID |-> "g1", day |-> 2, date |-> 28, homeSeo |-> S_arizona, awaySeo |-> S_iowa,
      firstHalf |-> [scored |-> 41, allowed |-> 35],
      secondHalf |-> [scored |-> 38, allowed |-> 30],
      teams |-> << [teamId |-> <<"2","9">>, seoname |-> S_arizona],
                   [teamId |-> <<"3","1","2">>, seoname |-> S_iowa] >>],
     [gameID |-> "g2", day |-> 26, date |-> 4, homeSeo |-> S_arizona, awaySeo |-> S_iona,
      firstHalf |-> [scored |-> 30, allowed |-> 41],
      secondHalf |-> [scored |-> 44, allowed |-> 29],
      teams |-> << [teamId |-> <<"2","9">>, seoname |-> S_arizona],
                   [teamId |-> <<"3","1","0">>, seoname |-> S_iona] >>] >>

\* data.games of the scoreboard of the day `day` days before today
RECURSIVE GamesOn(_, _)
GamesOn(day, sched) ==
  IF sched = <<>> THEN <<>>
  ELSE IF Head(sched).day = day
       THEN <<Head(sched)>> \o GamesOn(day, Tail(sched))
       ELSE GamesOn(day, Tail(sched))

\* a GameStats record as the cache keeps it
GameStatsOf(g) ==
  [gameId |-> g.gameID, date |-> g.date,
   firstHalf |-> g.firstHalf, secondHalf |-> g.secondHalf]

\* loadTeamStatsCache found no file (null)
NoCache == [none |-> TRUE]
\* the suggestions field of a TeamStatsResult: undefined, or a list of teams
NoSuggestions == [defined |-> FALSE, teams |-> <<>>]
Suggested(teams) == [defined |-> TRUE, teams |-> teams]

\* ------------------------------------------------------------------ state
VARIABLES
  disk,      \* lib/data/teams: file key -> TeamStatsCache record
  aliases,   \* lib/data/team-aliases.json: key -> team id
  now,       \* Date.now(), in ms
  ticks,     \* advances of the clock so far
  ncalls,    \* calls started so far
  nfetches,  \* calls so far that went to the schedule feed
  active,    \* the call slots in use
  callers,   \* the (teamId, teamName) pairs the callers of this behaviour pass
  pure,      \* a pure function under examination: its input, then its result
  observe,   \* whether the walks of this behaviour are observed (see IdleCall)
  call,      \* per call slot: position and locals of getOrUpdateTeamStats
  reply,     \* the last synchronous request served and what it returned
  csv,       \* lib/data/team-rankings: file name -> the teams of its rows
  rankings   \* module state of the ranking-row store (cachedData,
             \* lastLoadTime, teamNameCache)

vars == <<disk, aliases, now, ticks, ncalls, nfetches, active, observe, callers, pure,
          call, reply, csv, rankings>>

\* no synchronous request has been served
NoReply == [op |-> "none"]
\* the data directory of the rankings holds no file
NoCsv == <<>>
\* the ranking-row store as the module leaves it when it is loaded:
\* cachedData = null, lastLoadTime = 0, teamNameCache empty
NoTable == [none |-> TRUE]
RankingsAtStart ==
  [cachedData |-> NoTable, lastLoadTime |-> 0, teamNameCache |-> <<>>]
\* the stores no call of getOrUpdateTeamStats touches
OtherStoresAtRest ==
  /\ reply = NoReply
  /\ csv = NoCsv
  /\ rankings = RankingsAtStart

Slots == {1, 2}

\* ---------------------------------------------------- cache files, aliases
\* a file whose content JSON.parse rejects (cut short by an interrupted write)
Unparsable == [unparsable |-> TRUE]
\* an exception on its way up the stack
Raised == [raised |-> TRUE]

\* loadTeamStatsCache without its try / catch
loadTeamStatsCache_NoCatch(d, teamId) ==
  IF teamId \notin DOMAIN d THEN NoCache
  ELSE IF d[teamId] = Unparsable THEN Raised
  ELSE d[teamId]

\* loadTeamStatsCache: the parsed file, or null when there is no file or
\* reading it throws
loadTeamStatsCache(d, teamId) ==
  IF teamId \notin DOMAIN d THEN NoCache
  ELSE IF d[teamId] = Unparsable THEN NoCache
  ELSE d[teamId]

\* saveTeamStatsCache that writes nothing
saveTeamStatsCache_Skipped(d, cache) == d

\* What JSON.parse reads back from JSON.stringify(cache, null, 2): strings,
\* arrays and finite numbers as they were, null for a number that is NaN
JsonNull == [null |-> TRUE]
JsonNumber(x) == IF x.nan THEN JsonNull ELSE x
JsonHalf(h) ==
  [scored |-> JsonNumber(h.scored), allowed |-> JsonNumber(h.allowed),
   gamesPlayed |-> h.gamesPlayed]
JsonAverages(a) ==
  [firstHalf |-> JsonHalf(a.firstHalf), secondHalf |-> JsonHalf(a.secondHalf)]
JsonCache(cache) ==
  [cache EXCEPT !.seasonAverages = JsonAverages(@),
                !.last5Averages = JsonAverages(@)]

\* saveTeamStatsCache: the file named after cache.teamId is rewritten in full
saveTeamStatsCache(d, cache) == (cache.teamId :> JsonCache(cache)) @@ d

\* there is no alias file
NoAliasFile == [missing |-> TRUE]

\* loadTeamAliases: the parsed file without its _comment key, {} when there
\* is no file
S_comment == <<"_","c","o","m","m","e","n","t">>
loadTeamAliases(file) ==
  IF file = NoAliasFile THEN <<>>
  ELSE [k \in DOMAIN file \ {S_comment} |-> file[k]]

\* resolveTeamId: aliases[teamId.toLowerCase()] || teamId
resolveTeamId(file, teamId) ==
  LET al == loadTeamAliases(file)
      normalizedId == toLowerCase(teamId)
  IN IF normalizedId \in DOMAIN al /\ al[normalizedId] # <<>>
     THEN al[normalizedId] ELSE teamId

\* a fixed order of the file keys, as fs.readdirSync lists them
CharRank(c) == IF c \in LowerSet THEN CHOOSE i \in 1..26 : LowerAlpha[i] = c ELSE 0
RECURSIVE SeqLess(_, _)
SeqLess(a, b) ==
  IF a = <<>> THEN b # <<>>
  ELSE IF b = <<>> THEN FALSE
  ELSE LET ia == CharRank(Head(a))
           ib == CharRank(Head(b))
       IN IF ia # ib THEN ia < ib ELSE SeqLess(Tail(a), Tail(b))

RECURSIVE SortedKeys(_)
SortedKeys(S) ==
  IF S = {} THEN <<>>
  ELSE LET m == CHOOSE x \in S : \A y \in S \ {x} : SeqLess(x, y)
       IN <<m>> \o SortedKeys(S \ {m})

\* getAllCachedTeams: teamId, teamName and games count of every cache file
\* that parses (the others map to null and are filtered out)
getAllCachedTeams(d) ==
  LET keys == SortedKeys({k \in DOMAIN d : d[k] # Unparsable})
  IN [i \in 1..Len(keys) |->
       [teamId |-> d[keys[i]].teamId,
        teamName |-> d[keys[i]].teamName,
        gamesCount |-> Len(d[keys[i]].games)]]

\* isCacheStale with >= for >
isCacheStale_AtTTL(cache, t) == t - cache.lastUpdated >= CACHE_TTL
\* isCacheStale with a TTL that lost a factor of 60: six minutes
isCacheStale_Minutes(cache, t) == t - cache.lastUpdated > 6 * 60 * 1000

isCacheStale(cache, t) == t - cache.lastUpdated > CACHE_TTL
isCacheFresh(cache, t) == t - cache.lastUpdated < PRELOAD_GRACE_PERIOD

\* ------------------------------------------------------- tryFindTeamCache
\* The resolver's accesses to the stores are kept in order in `reads`:
\* "load" is a loadTeamStatsCache(key), "aliases" a loadTeamAliases() made
\* by resolveTeamId(key), "list" a getAllCachedTeams().
LoadStep(d, teamId, reads) ==
  [cache |-> loadTeamStatsCache(d, teamId),
   reads |-> Append(reads, [op |-> "load", key |-> teamId])]

ResolveStep(al, teamId, reads) ==
  [id |-> resolveTeamId(al, teamId),
   reads |-> Append(reads, [op |-> "aliases", key |-> teamId])]

\* the three ways tryFindTeamCache ends: a return of { cache, resolvedId },
\* a return of null, an exception
Hit(cache, resolvedId, strategy, reads) ==
  [found |-> TRUE, raised |-> FALSE, cache |-> cache, resolvedId |-> resolvedId,
   strategy |-> strategy, reads |-> reads]
Miss(reads) ==
  [found |-> FALSE, raised |-> FALSE, cache |-> NoCache, resolvedId |-> <<>>,
   strategy |-> "none", reads |-> reads]
Thrown(reads) ==
  [found |-> FALSE, raised |-> TRUE, cache |-> NoCache, resolvedId |-> <<>>,
   strategy |-> "none", reads |-> reads]

\* Strategy 3 on the variants from index i on: the first variant that names a
\* cache file directly or through its alias
RECURSIVE FindByVariant(_, _, _, _, _)
FindByVariant(d, al, variants, i, reads) ==
  IF i > Len(variants) THEN Miss(reads)
  ELSE LET variant == variants[i]
           direct == LoadStep(d, variant, reads)
           aliasResolved == ResolveStep(al, variant, direct.reads)
           viaAlias == LoadStep(d, aliasResolved.id, aliasResolved.reads)
       IN IF direct.cache = Raised THEN Thrown(direct.reads)
          ELSE IF direct.cache # NoCache
          THEN Hit(direct.cache, variant, "variant", direct.reads)
          ELSE IF aliasResolved.id = variant
          THEN FindByVariant(d, al, variants, i + 1, aliasResolved.reads)
          ELSE IF viaAlias.cache = Raised THEN Thrown(viaAlias.reads)
          ELSE IF viaAlias.cache # NoCache
          THEN Hit(viaAlias.cache, aliasResolved.id, "variantAlias", viaAlias.reads)
          ELSE FindByVariant(d, al, variants, i + 1, viaAlias.reads)

\* Strategy 4 on the cached teams from index i on
RECURSIVE FindByFuzzy(_, _, _, _, _)
FindByFuzzy(d, teamName, cachedTeams, i, reads) ==
  IF i > Len(cachedTeams) THEN Miss(reads)
  ELSE IF ~isLikelyMatch(teamName, cachedTeams[i].teamName)
  THEN FindByFuzzy(d, teamName, cachedTeams, i + 1, reads)
  ELSE LET loaded == LoadStep(d, cachedTeams[i].teamId, reads)
       IN IF loaded.cache = Raised THEN Thrown(loaded.reads)
          ELSE IF loaded.cache # NoCache
          THEN Hit(loaded.cache, cachedTeams[i].teamId, "fuzzy", loaded.reads)
          ELSE FindByFuzzy(d, teamName, cachedTeams, i + 1, loaded.reads)

\* tryFindTeamCache that looks the raw id up in the alias file first
tryFindTeamCache_AliasFirst(d, al, teamId, teamName) ==
  LET resolved == ResolveStep(al, teamId, <<>>)
      viaAlias == LoadStep(d, resolved.id, resolved.reads)
      exact == LoadStep(d, teamId, viaAlias.reads)
      byVariant == FindByVariant(d, al, generateSeoVariants(teamName), 1, exact.reads)
  IN IF resolved.id # teamId /\ viaAlias.cache # NoCache
     THEN Hit(viaAlias.cache, resolved.id, "alias", viaAlias.reads)
     ELSE IF exact.cache # NoCache
     THEN Hit(exact.cache, teamId, "exact", exact.reads)
     ELSE IF byVariant.found \/ byVariant.raised THEN byVariant
     ELSE FindByFuzzy(d, teamName, getAllCachedTeams(d), 1,
                      Append(byVariant.reads, [op |-> "list", key |-> <<>>]))

tryFindTeamCache(d, al, teamId, teamName) ==
  LET exact == LoadStep(d, teamId, <<>>)
      resolved == ResolveStep(al, teamId, exact.reads)
      viaAlias == LoadStep(d, resolved.id, resolved.reads)
      afterAlias == IF resolved.id # teamId THEN viaAlias.reads ELSE resolved.reads
      byVariant == FindByVariant(d, al, generateSeoVariants(teamName), 1, afterAlias)
  IN IF exact.cache = Raised THEN Thrown(exact.reads)
     ELSE IF exact.cache # NoCache
     THEN Hit(exact.cache, teamId, "exact", exact.reads)
     ELSE IF resolved.id # teamId /\ viaAlias.cache = Raised
     THEN Thrown(viaAlias.reads)
     ELSE IF resolved.id # teamId /\ viaAlias.cache # NoCache
     THEN Hit(viaAlias.cache, resolved.id, "alias", viaAlias.reads)
     ELSE IF byVariant.found \/ byVariant.raised THEN byVariant
     ELSE FindByFuzzy(d, teamName, getAllCachedTeams(d), 1,
                      Append(byVariant.reads, [op |-> "list", key |-> <<>>]))

\* ----------------------------------------------------------- cache records
\* buildStatsCache sorts a copy of the games by date, most recent first
SortByDate(games) == ArraySort("date", games)

\* sortedGames.slice(0, 5)
LAST_GAMES == 5
FirstGames(games, n) == SubSeq(games, 1, Min2(n, Len(games)))

\* a number of the averages, in tenths; NaN is what 0 / 0 gives
Tenths(t) == [nan |-> FALSE, tenths |-> t]
NotANumber == [nan |-> TRUE, tenths |-> 0]

\* games.reduce((sum, g) => sum + g[half][field], 0)
RECURSIVE SumOf(_, _, _)
SumOf(games, half, field) ==
  IF games = <<>> THEN 0
  ELSE Head(games)[half][field] + SumOf(Tail(games), half, field)

\* Math.round((sum / count) * 10) / 10: the mean rounded to one decimal,
\* halves upwards
RoundedMean(sum, count) ==
  IF count = 0 THEN NotANumber
  ELSE Tenths((20 * sum + count) \div (2 * count))

\* calculateAverages without the test for the empty list
calculateAverages_NoGuard(games) ==
  LET count == Len(games)
  IN [firstHalf |->
        [scored |-> RoundedMean(SumOf(games, "firstHalf", "scored"), count),
         allowed |-> RoundedMean(SumOf(games, "firstHalf", "allowed"), count),
         gamesPlayed |-> count],
      secondHalf |->
        [scored |-> RoundedMean(SumOf(games, "secondHalf", "scored"), count),
         allowed |-> RoundedMean(SumOf(games, "secondHalf", "allowed"), count),
         gamesPlayed |-> count]]

calculateAverages(games) ==
  IF Len(games) = 0
  THEN [firstHalf |-> [scored |-> Tenths(0), allowed |-> Tenths(0), gamesPlayed |-> 0],
        secondHalf |-> [scored |-> Tenths(0), allowed |-> Tenths(0), gamesPlayed |-> 0]]
  ELSE LET count == Len(games)
       IN [firstHalf |->
             [scored |-> RoundedMean(SumOf(games, "firstHalf", "scored"), count),
              allowed |-> RoundedMean(SumOf(games, "firstHalf", "allowed"), count),
              gamesPlayed |-> count],
           secondHalf |->
             [scored |-> RoundedMean(SumOf(games, "secondHalf", "scored"), count),
              allowed |-> RoundedMean(SumOf(games, "secondHalf", "allowed"), count),
              gamesPlayed |-> count]]

\* the record buildStatsCache returns, from the games once sorted
StatsCacheOf(teamId, teamName, sortedGames, t) ==
  [teamId |-> teamId, teamName |-> teamName, lastUpdated |-> t,
   games |-> sortedGames,
   seasonAverages |-> calculateAverages(sortedGames),
   last5Averages |-> calculateAverages(FirstGames(sortedGames, LAST_GAMES))]

\* buildStatsCache that leaves lastUpdated at the epoch
buildStatsCache_Unstamped(teamId, teamName, games, t) ==
  StatsCacheOf(teamId, teamName, SortByDate(games), 0)

buildStatsCache(teamId, teamName, games, t) ==
  StatsCacheOf(teamId, teamName, SortByDate(games), t)

createEmptyCache(teamId, teamName, t) ==
  [teamId |-> teamId, teamName |-> teamName, lastUpdated |-> t, games |-> <<>>,
   seasonAverages |-> calculateAverages(<<>>),
   last5Averages |-> calculateAverages(<<>>)]

\* --------------------------------------------------- fetchTeamGameHistory
\* v.split('-')[0]
RECURSIVE FirstPiece(_)
FirstPiece(v) ==
  IF v = <<>> \/ Head(v) = "-" THEN <<>> ELSE <<Head(v)>> \o FirstPiece(Tail(v))

\* words.indexOf(w), counted from 1; 0 when absent
IndexOfWord(words, w) ==
  IF \E i \in 1..Len(words) : words[i] = w
  THEN CHOOSE i \in 1..Len(words) : words[i] = w /\ \A j \in 1..(i - 1) : words[j] # w
  ELSE 0

\* words.filter(w => w !== drop)
RECURSIVE WordsWithout(_, _)
WordsWithout(words, drop) ==
  IF words = <<>> THEN <<>>
  ELSE IF Head(words) = drop THEN WordsWithout(Tail(words), drop)
  ELSE <<Head(words)>> \o WordsWithout(Tail(words), drop)

\* the seoVariants set the day-walk builds from (teamId, teamName)
FetchSeoVariants(teamId, teamName) ==
  LET seoName == toSeoName(teamName)
      words == splitSpaces(toLowerCase(teamName))
      stateIdx == IndexOfWord(words, W_state)
  IN {seoName, teamId, CoreNameSeo(teamName)}
     \cup (IF Len(words) >= 2
           THEN (IF words[2] \in {W_state, W_st, W_st \o <<".">>}
                 THEN {words[1] \o <<"-">> \o W_st} ELSE {})
                \cup (IF stateIdx > 1
                      THEN {joinDash(SubSeq(words, 1, stateIdx - 1)) \o <<"-">> \o W_st}
                      ELSE {})
                \cup {StripDots(joinDash(SubSeq(words, 1, 2))), StripDots(words[1])}
           ELSE {})
     \cup (IF IndexOfWord(words, W_university) > 0
           THEN {StripDots(joinDash(WordsWithout(words, W_university)))} ELSE {})
     \cup (IF words[1] = W_university /\ IndexOfWord(words, W_of) = 2 /\ Len(words) > 2
           THEN {StripDots(joinDash(SubSeq(words, 3, Len(words))))} ELSE {})

\* the filter of data.games: a side's SEO name equals a variant, or starts
\* with the variant's first word
IsPotentialGame(g, variants) ==
  \E v \in variants :
    LET firstWord == FirstPiece(v)
    IN \/ g.homeSeo = v
       \/ g.awaySeo = v
       \/ /\ startsWith(g.homeSeo, firstWord) \/ startsWith(g.awaySeo, firstWord)
          /\ \/ startsWith(g.homeSeo, firstWord \o <<"-">>)
             \/ g.homeSeo = firstWord
             \/ startsWith(g.awaySeo, firstWord \o <<"-">>)
             \/ g.awaySeo = firstWord

\* contest.teams.find(...): the team is in the game by id or by SEO name
TeamInGame(g, teamId, seoName) ==
  \E k \in 1..Len(g.teams) :
    \/ g.teams[k].teamId = teamId
    \/ g.teams[k].seoname = teamId
    \/ g.teams[k].seoname = seoName

\* What a game-detail request can bring:
\*   "null"         fetchGameDetail returned null (non-OK response, network
\*                  error or timeout), or the contest has no teams: skipped
\*   "detail"       the contest with its teams and both line scores
\*   "noLinescores" the contest with its teams and fewer than two line scores
\*   "malformed"    a body without contests: reading contests[0] throws
DetailOutcomes == {"null", "detail", "noLinescores", "malformed"}

\* for (const g of potentialGames) { ... } with the detail outcome f[gameID]
RECURSIVE ProcessGames(_, _, _, _, _)
ProcessGames(games, f, teamId, seoName, acc) ==
  IF games = <<>> THEN acc
  ELSE LET g == Head(games)
           rest == Tail(games)
       IN IF g.gameID \in acc.seen
          THEN ProcessGames(rest, f, teamId, seoName, acc)
          ELSE LET asked == acc
               IN CASE f[g.gameID] = "null" ->
                         ProcessGames(rest, f, teamId, seoName,
                                      [asked EXCEPT !.failed = @ + 1])
                    [] f[g.gameID] = "malformed" ->
                         [asked EXCEPT !.threw = TRUE]
                    [] f[g.gameID] = "noLinescores" ->
                         IF TeamInGame(g, teamId, seoName)
                         THEN ProcessGames(rest, f, teamId, seoName,
                                [asked EXCEPT !.seen = @ \cup {g.gameID}])
                         ELSE ProcessGames(rest, f, teamId, seoName, asked)
                    [] OTHER ->
                         IF TeamInGame(g, teamId, seoName)
                         THEN ProcessGames(rest, f, teamId, seoName,
                                [asked EXCEPT !.seen = @ \cup {g.gameID},
                                              !.stats = Append(@, GameStatsOf(g))])
                         ELSE ProcessGames(rest, f, teamId, seoName, asked)

\* potentialGames of one scoreboard
RECURSIVE PotentialGames(_, _)
PotentialGames(games, variants) ==
  IF games = <<>> THEN <<>>
  ELSE IF IsPotentialGame(Head(games), variants)
       THEN <<Head(games)>> \o PotentialGames(Tail(games), variants)
       ELSE PotentialGames(Tail(games), variants)

\* ------------------------------------------------------------------- calls
\* A call slot: pc is the position of getOrUpdateTeamStats ("idle" before a
\* call, "walk" inside the day loop of fetchTeamGameHistory, "fetched" when
\* the loop has ended and the games are handed back, "done" after return,
\* "raised" when the call ended with an exception instead).
\* wrote, askedFeed, began, allFailed (no schedule query of the walk has
\* succeeded) and halted (the walk left its loop by the breaker's break)
\* record what the call did, and in an observed behaviour failRun (the
\* schedule queries that failed in a row, counted to the breaker's limit),
\* sawRun3 (failRun reached the limit) and lateQuery (a query was issued
\* after that) record what the walk did, as do queried (the day offsets of
\* the schedule queries issued, in order) and failedCalls (the network calls
\* of the latest day that failed: its schedule query, or the game-detail
\* requests fetchGameDetail answered with null); the code reads none of them.
IdleCall ==
  [pc |-> "idle", teamId |-> <<>>, teamName |-> <<>>, branch |-> "none",
   resolvedId |-> <<>>, existing |-> NoCache, fetchId |-> <<>>, fetchName |-> <<>>,
   daysBack |-> 0, i |-> 0, consecutiveFailures |-> 0,
   gameStats |-> <<>>, seenGameIds |-> {},
   failRun |-> 0, sawRun3 |-> FALSE, lateQuery |-> FALSE, allFailed |-> TRUE,
   halted |-> FALSE, queried |-> <<>>, failedCalls |-> 0,
   result |-> NoCache, wrote |-> FALSE, askedFeed |-> FALSE, began |-> 0]

\* the call returns without fetching
Served(base, cache) ==
  [base EXCEPT !.pc = "done",
               !.result = [cache |-> cache, stale |-> FALSE, matched |-> TRUE,
                           suggestions |-> NoSuggestions]]

\* the call enters fetchTeamGameHistory(fetchId, fetchName, daysBack)
Fetching(base, fetchId, fetchName, daysBack) ==
  [base EXCEPT !.pc = "walk", !.fetchId = fetchId, !.fetchName = fetchName,
               !.daysBack = daysBack]

\* CacheBranch without its two early returns
CacheBranch_AlwaysRefresh(existingCache, t) ==
  IF Len(existingCache.games) = 0 THEN "empty" ELSE "stale"

\* CacheBranch whose first test forgets games.length > 0
CacheBranch_EmptyServed(existingCache, t) ==
  IF ~isCacheStale(existingCache, t)
  THEN "fresh"
  ELSE IF Len(existingCache.games) > 0 /\ isCacheFresh(existingCache, t)
  THEN "grace"
  ELSE IF Len(existingCache.games) = 0
  THEN "empty"
  ELSE "stale"

\* what getOrUpdateTeamStats does with a cache it found: "fresh" and "grace"
\* return it, "empty" fetches 30 days, "stale" fetches 7 days
CacheBranch(existingCache, t) ==
  IF Len(existingCache.games) > 0 /\ ~isCacheStale(existingCache, t)
  THEN "fresh"
  ELSE IF Len(existingCache.games) > 0 /\ isCacheFresh(existingCache, t)
  THEN "grace"
  ELSE IF Len(existingCache.games) = 0
  THEN "empty"
  ELSE "stale"

\* getOrUpdateTeamStats(teamId, teamName) up to its first await
Begin(c) ==
  /\ c \in active
  /\ call[c].pc \in {"idle", "done", "raised"}
  /\ ncalls < MaxCalls
  /\ \E r \in callers :
       LET found == tryFindTeamCache(disk, aliases, r.teamId, r.teamName)
           base == [IdleCall EXCEPT !.teamId = r.teamId, !.teamName = r.teamName,
                                    !.began = now]
       IN call' = [call EXCEPT ![c] =
            IF found.raised
            THEN [base EXCEPT !.pc = "raised"]
            ELSE IF found.found
            THEN LET existingCache == found.cache
                     known == [base EXCEPT !.resolvedId = found.resolvedId,
                                           !.existing = existingCache]
                     branch == CacheBranch(existingCache, now)
                 IN IF branch \in {"fresh", "grace"}
                    THEN Served([known EXCEPT !.branch = branch], existingCache)
                    ELSE Fetching([known EXCEPT !.branch = branch],
                                  found.resolvedId, existingCache.teamName,
                                  IF branch = "empty" THEN FULL_LOOKBACK
                                  ELSE INCREMENTAL_LOOKBACK)
            ELSE Fetching([base EXCEPT !.branch = "nocache"],
                          r.teamId, r.teamName, FULL_LOOKBACK)]
  /\ ncalls' = ncalls + 1
  /\ nfetches' = IF call'[c].pc = "walk" THEN nfetches + 1 ELSE nfetches
  /\ nfetches' <= MaxFetches * Cardinality(active)
  /\ UNCHANGED <<reply, csv, rankings, disk, aliases, now, ticks, active, observe, callers, pure>>

\* the loop of the day-walk goes on: i < daysBack and the breaker is closed
InLoop(c) ==
  /\ c \in active
  /\ call[c].pc = "walk"
  /\ call[c].i < call[c].daysBack
  /\ call[c].consecutiveFailures < MAX_CONSECUTIVE_FAILURES

\* NextDay that stays on the day of the query
NextDay_Retried(i) == i

\* i++: the loop goes on to the day before
NextDay(i) == i + 1

\* one more schedule query is issued
Asked(cl) ==
  IF observe
  THEN [cl EXCEPT !.lateQuery = @ \/ cl.failRun >= MAX_CONSECUTIVE_FAILURES,
                  !.queried = Append(@, cl.i)]
  ELSE cl

\* the schedule query of the day failed
FailedQuery(cl) ==
  IF observe
  THEN [cl EXCEPT !.failRun = Min2(@ + 1, MAX_CONSECUTIVE_FAILURES),
                  !.sawRun3 = @ \/ cl.failRun + 1 >= MAX_CONSECUTIVE_FAILURES,
                  !.failedCalls = 1]
  ELSE cl

\* the schedule query of the day succeeded
AnsweredQuery(cl) ==
  IF observe THEN [cl EXCEPT !.failRun = 0, !.allFailed = FALSE]
  ELSE [cl EXCEPT !.allFailed = FALSE]

\* the scoreboard request of day i answers with a non-OK status:
\* consecutiveFailures++; continue
ScheduleNotOk(c) ==
  /\ InLoop(c)
  /\ call' = [call EXCEPT ![c] =
       [FailedQuery(Asked(call[c])) EXCEPT !.consecutiveFailures = @ + 1,
                                           !.i = NextDay(@)]]
  /\ UNCHANGED <<reply, csv, rankings, disk, aliases, now, ticks, ncalls, nfetches, active, observe, callers, pure>>

\* the scoreboard request of day i rejects (network error, 10 s timeout):
\* the catch of the day counts it
ScheduleThrows(c) ==
  /\ InLoop(c)
  /\ call' = [call EXCEPT ![c] =
       [FailedQuery(Asked(call[c])) EXCEPT !.consecutiveFailures = @ + 1,
                                           !.i = NextDay(@)]]
  /\ UNCHANGED <<reply, csv, rankings, disk, aliases, now, ticks, ncalls, nfetches, active, observe, callers, pure>>

\* the scoreboard request of day i answers OK, consecutiveFailures is reset,
\* and response.json() rejects (body cut by the timeout, or no JSON): the
\* catch of the day counts one failure from zero
ScheduleBodyFails(c) ==
  /\ InLoop(c)
  /\ call' = [call EXCEPT ![c] =
       [FailedQuery(Asked(call[c])) EXCEPT !.consecutiveFailures = 0 + 1,
                                           !.i = NextDay(@)]]
  /\ UNCHANGED <<reply, csv, rankings, disk, aliases, now, ticks, ncalls, nfetches, active, observe, callers, pure>>

\* the scoreboard request of day i answers OK with its games: the counter is
\* reset, the potential games are filtered and their details fetched
ScheduleOk(c) ==
  /\ InLoop(c)
  /\ LET cl == call[c]
         seoName == toSeoName(cl.fetchName)
         potentialGames == PotentialGames(GamesOn(cl.i, Schedule),
                                          FetchSeoVariants(cl.fetchId, cl.fetchName))
         ids == {potentialGames[k].gameID : k \in 1..Len(potentialGames)}
     IN \E f \in [ids -> DetailOutcomes] :
          LET got == ProcessGames(potentialGames, f, cl.fetchId, seoName,
                                  [seen |-> cl.seenGameIds, stats |-> cl.gameStats,
                                   threw |-> FALSE, failed |-> 0])
          IN call' = [call EXCEPT ![c] =
               [AnsweredQuery(Asked(cl)) EXCEPT
                  !.consecutiveFailures = IF got.threw THEN 1 ELSE 0,
                  !.failedCalls = IF observe THEN got.failed ELSE 0,
                  !.seenGameIds = got.seen,
                  !.gameStats = got.stats,
                  !.i = NextDay(@)]]
  /\ UNCHANGED <<reply, csv, rankings, disk, aliases, now, ticks, ncalls, nfetches, active, observe, callers, pure>>

\* the loop ends (all days walked, or the breaker opened) and
\* fetchTeamGameHistory returns gameStats; its other locals are gone
WalkEnds(c) ==
  /\ c \in active
  /\ call[c].pc = "walk"
  /\ ~InLoop(c)
  /\ call' = [call EXCEPT ![c] =
       [@ EXCEPT !.pc = "fetched", !.askedFeed = call[c].i > 0,
                 !.halted = /\ call[c].i < call[c].daysBack
                            /\ call[c].consecutiveFailures >= MAX_CONSECUTIVE_FAILURES,
                 !.i = 0, !.consecutiveFailures = 0, !.seenGameIds = {},
                 !.failRun = 0, !.sawRun3 = FALSE, !.lateQuery = FALSE,
                 !.queried = <<>>, !.failedCalls = 0]]
  /\ UNCHANGED <<reply, csv, rankings, disk, aliases, now, ticks, ncalls, nfetches, active, observe, callers, pure>>

\* FreshGames without the filter on existingGameIds
FreshGames_Unfiltered(existing, newGames) == newGames

\* existingCache.games followed by the fetched games whose gameId is new
FreshGames(existing, newGames) ==
  LET existingGameIds == {existing[k].gameId : k \in 1..Len(existing)}
  IN FilterChars(newGames, {newGames[k] : k \in {j \in 1..Len(newGames) :
                                                  newGames[j].gameId \notin existingGameIds}})

\* what a return of getOrUpdateTeamStats leaves: the cache files and the
\* fields of the TeamStatsResult
Outcome(d, cache, stale, matched, suggestions, wrote) ==
  [disk |-> d, cache |-> cache, stale |-> stale, matched |-> matched,
   suggestions |-> suggestions, wrote |-> wrote]

\* the found cache has no games and the 30-day fetch returned games
EmptyCacheOutcome(d, resolvedId, existingCache, games, t) ==
  IF Len(games) > 0
  THEN LET updatedCache == buildStatsCache(resolvedId, existingCache.teamName, games, t)
       IN Outcome(saveTeamStatsCache(d, updatedCache), updatedCache,
                  FALSE, TRUE, NoSuggestions, TRUE)
  ELSE Outcome(d, existingCache, FALSE, TRUE, NoSuggestions, FALSE)

\* the found cache is stale and the 7-day fetch returned newGames
\* StaleCacheOutcome that rebuilds the cache from the fetched games alone
StaleCacheOutcome_FetchedOnly(d, resolvedId, existingCache, newGames, t) ==
  LET updatedCache == buildStatsCache(resolvedId, existingCache.teamName, newGames, t)
  IN Outcome(saveTeamStatsCache(d, updatedCache), updatedCache,
             FALSE, TRUE, NoSuggestions, TRUE)

StaleCacheOutcome(d, resolvedId, existingCache, newGames, t) ==
  LET allGames == existingCache.games \o FreshGames(existingCache.games, newGames)
      updatedCache == buildStatsCache(resolvedId, existingCache.teamName, allGames, t)
  IN Outcome(saveTeamStatsCache(d, updatedCache), updatedCache,
             FALSE, TRUE, NoSuggestions, TRUE)

\* NoCacheOutcome that saves the empty cache it returns
NoCacheOutcome_SavesEmpty(d, teamId, teamName, games, t) ==
  IF Len(games) > 0
  THEN LET cache == buildStatsCache(teamId, teamName, games, t)
       IN Outcome(saveTeamStatsCache(d, cache), cache, FALSE, TRUE, NoSuggestions, TRUE)
  ELSE LET suggestions == findSimilarTeams(teamName, getAllCachedTeams(d),
                                           SUGGESTION_LIMIT)
           cache == createEmptyCache(teamId, teamName, t)
       IN Outcome(saveTeamStatsCache(d, cache), cache, FALSE, FALSE,
                  IF Len(suggestions) > 0 THEN Suggested(suggestions)
                  ELSE NoSuggestions,
                  TRUE)

\* NoCacheOutcome that reports the empty result as matched
NoCacheOutcome_Matched(d, teamId, teamName, games, t) ==
  IF Len(games) > 0
  THEN LET cache == buildStatsCache(teamId, teamName, games, t)
       IN Outcome(saveTeamStatsCache(d, cache), cache, FALSE, TRUE, NoSuggestions, TRUE)
  ELSE LET suggestions == findSimilarTeams(teamName, getAllCachedTeams(d),
                                           SUGGESTION_LIMIT)
       IN Outcome(d, createEmptyCache(teamId, teamName, t), FALSE, TRUE,
                  IF Len(suggestions) > 0 THEN Suggested(suggestions)
                  ELSE NoSuggestions,
                  FALSE)

\* no cache was found and the 30-day fetch returned games
NoCacheOutcome(d, teamId, teamName, games, t) ==
  IF Len(games) > 0
  THEN LET cache == buildStatsCache(teamId, teamName, games, t)
       IN Outcome(saveTeamStatsCache(d, cache), cache, FALSE, TRUE, NoSuggestions, TRUE)
  ELSE LET suggestions == findSimilarTeams(teamName, getAllCachedTeams(d),
                                           SUGGESTION_LIMIT)
       IN Outcome(d, createEmptyCache(teamId, teamName, t), FALSE, FALSE,
                  IF Len(suggestions) > 0 THEN Suggested(suggestions)
                  ELSE NoSuggestions,
                  FALSE)

\* getOrUpdateTeamStats after the await of fetchTeamGameHistory. The walk
\* catches every error of the feed itself, so the catch blocks around the
\* await (which would return stale: true) are never entered.
Finish(c) ==
  /\ c \in active
  /\ call[c].pc = "fetched"
  /\ LET cl == call[c]
         out == CASE cl.branch = "empty" ->
                       EmptyCacheOutcome(disk, cl.resolvedId, cl.existing,
                                         cl.gameStats, now)
                  [] cl.branch = "stale" ->
                       StaleCacheOutcome(disk, cl.resolvedId, cl.existing,
                                         cl.gameStats, now)
                  [] OTHER ->
                       NoCacheOutcome(disk, cl.teamId, cl.teamName, cl.gameStats, now)
     IN /\ disk' = out.disk
        /\ call' = [call EXCEPT ![c] =
             [cl EXCEPT !.pc = "done", !.wrote = out.wrote,
                        !.result = [cache |-> out.cache, stale |-> out.stale,
                                    matched |-> out.matched,
                                    suggestions |-> out.suggestions]]]
  /\ UNCHANGED <<reply, csv, rankings, aliases, now, ticks, ncalls, nfetches, active, observe, callers, pure>>

\* ------------------------------------------------------------------- clock
\* The clock advances between two reads of it. The day-walk never reads the
\* clock, so an advance during a walk shows as one right after it.
Deltas == {PRELOAD_GRACE_PERIOD \div 2, CACHE_TTL + 1}

Tick ==
  /\ ticks < MaxTicks
  /\ \E c \in active : call[c].pc # "walk"
  /\ \E delta \in Deltas : now' = now + delta
  /\ ticks' = ticks + 1
  /\ UNCHANGED <<reply, csv, rankings, disk, aliases, ncalls, nfetches, active, observe, callers, pure, call>>

\* ---------------------------------------------------------- initial states
\* cache files left by earlier runs: a team with one old game, a team whose
\* file holds no game, and a file that was cut short
ArizonaFile ==
  buildStatsCache(S_arizona, N_Arizona, <<GameStatsOf(Schedule[2])>>, 0)
\* the age of these files when the behaviour starts
StartTimes == {0, PRELOAD_GRACE_PERIOD, CACHE_TTL}
IowaFile == createEmptyCache(S_iowa, N_Iowa, 0)

InitDisks ==
  { <<>>,
    (S_arizona :> ArizonaFile) @@ (S_iowa :> IowaFile) @@ (S_ua :> Unparsable) }

\* the alias file: one alias and the documentation key
InitAliases == (S_ua :> S_arizona) @@ (S_comment :> <<"x">>)

\* ------------------------------------------------- the ranking-row store
RELOAD_INTERVAL == 5 * 60 * 1000

\* CSV_FILES, in the order loadAllData reads them
CSV_FILES ==
  <<"firstHalfPPG", "firstHalfAllowed", "firstHalfMargin",
    "secondHalfPPG", "secondHalfAllowed", "secondHalfMargin">>

\* a Map, kept as the sequence of its entries in insertion order
MapHas(map, key) == \E i \in 1..Len(map) : map[i].key = key
MapGet(map, key) == map[CHOOSE i \in 1..Len(map) : map[i].key = key].value
\* Map.set: a known key keeps its place and takes the value
MapSet(map, key, value) ==
  IF MapHas(map, key)
  THEN [i \in 1..Len(map) |->
         IF map[i].key = key THEN [key |-> key, value |-> value] ELSE map[i]]
  ELSE Append(map, [key |-> key, value |-> value])

\* parseCSVFile on the rows from index i on: the table of this file and
\* the team-name cache, which every parsed row is written into
RECURSIVE ParseRows(_, _, _, _)
ParseRows(rows, i, result, names) ==
  IF i > Len(rows) THEN [result |-> result, names |-> names]
  ELSE LET row == rows[i]
           normalizedName == normalizeTeamName(row.team)
       IN ParseRows(rows, i + 1, MapSet(result, normalizedName, row),
                    MapSet(names, normalizedName, row.team))

\* parseCSVFile: an empty table when the file does not exist
parseCSVFile(files, name, names) ==
  IF name \notin DOMAIN files THEN [result |-> <<>>, names |-> names]
  ELSE ParseRows(files[name], 1, <<>>, names)

\* loadAllData on the files from index i on
RECURSIVE LoadFiles(_, _, _, _)
LoadFiles(files, i, data, names) ==
  IF i > Len(CSV_FILES) THEN [data |-> data, names |-> names]
  ELSE LET parsed == parseCSVFile(files, CSV_FILES[i], names)
       IN LoadFiles(files, i + 1, (CSV_FILES[i] :> parsed.result) @@ data,
                    parsed.names)

\* the line loadAllData writes to the console
LoadingLine == "Loading TeamRankings data from CSV files..."

\* loadAllData, with the assignment of its result to cachedData: the module
\* state afterwards and the console lines
loadAllData(store, files, t) ==
  LET loaded == LoadFiles(files, 1, <<>>, store.teamNameCache)
  IN [store |-> [cachedData |-> loaded.data, lastLoadTime |-> t,
                 teamNameCache |-> loaded.names],
      log |-> <<LoadingLine>>]

\* getData that reloads as soon as the table is as old as the interval
getData_AtInterval(store, files, t) ==
  IF store.cachedData = NoTable \/ t - store.lastLoadTime >= RELOAD_INTERVAL
  THEN loadAllData(store, files, t)
  ELSE [store |-> store, log |-> <<>>]

\* getData: reloads when there is no table or the table is older than the
\* interval
getData(store, files, t) ==
  IF store.cachedData = NoTable \/ t - store.lastLoadTime > RELOAD_INTERVAL
  THEN loadAllData(store, files, t)
  ELSE [store |-> store, log |-> <<>>]

\* reloadTeamRankingsData
reloadTeamRankingsData(store, files, t) == loadAllData(store, files, t)

\* similarities and confidences are fractions; a denominator 0 stands for NaN
Frac(p, q) == [num |-> p, den |-> q]
FracGT(a, b) == a.den > 0 /\ b.den > 0 /\ a.num * b.den > b.num * a.den
\* Math.max(similarity, 0.85)
AtLeast85(sim) ==
  IF sim.den = 0 THEN sim ELSE IF SimGE(sim, 85, 100) THEN sim ELSE Frac(85, 100)

NoMatch == [found |-> FALSE]
NoBest == [none |-> TRUE]

\* the first loop of findBestMatch, on the keys from index i on
RECURSIVE BestByKey(_, _, _, _)
BestByKey(normalizedSearch, dataMap, i, bestMatch) ==
  IF i > Len(dataMap) THEN bestMatch
  ELSE LET key == dataMap[i].key
           similarity == calculateSimilarity(normalizedSearch, key)
       IN BestByKey(normalizedSearch, dataMap, i + 1,
            IF SimGT(similarity, 7, 10)
               /\ (bestMatch = NoBest \/ FracGT(similarity, bestMatch.similarity))
            THEN [key |-> key, similarity |-> similarity]
            ELSE bestMatch)

W_universityOf == W_university \o Sp \o W_of \o Sp
\* the first group of /^(?:university of |the )?(.+?)(?:\s+university)?$/
UniversityCore(lowerOriginal) ==
  LET rest == IF startsWith(lowerOriginal, W_universityOf)
                 /\ Len(lowerOriginal) > Len(W_universityOf)
              THEN SubSeq(lowerOriginal, Len(W_universityOf) + 1, Len(lowerOriginal))
              ELSE IF startsWith(lowerOriginal, W_the \o Sp)
                      /\ Len(lowerOriginal) > Len(W_the) + 1
              THEN SubSeq(lowerOriginal, Len(W_the) + 2, Len(lowerOriginal))
              ELSE lowerOriginal
      body == SubSeq(rest, 1, Len(rest) - Len(W_university))
  IN IF endsWith(rest, W_university) /\ body # <<>> /\ IsSpace(body[Len(body)])
     THEN IF TrimRight(body) # <<>> THEN TrimRight(body)
          ELSE IF Len(body) >= 2 THEN <<body[1]>>
          ELSE rest
     ELSE rest

\* originalName of a key: teamNameCache.get(key) || fallback
NameOr(names, key, fallback) ==
  IF MapHas(names, key) /\ MapGet(names, key) # <<>> THEN MapGet(names, key)
  ELSE fallback

\* the second loop of findBestMatch, on the entries of teamNameCache from
\* index i on, and the return that follows it
RECURSIVE BestByName(_, _, _, _, _)
BestByName(teamName, dataMap, names, i, bestMatch) ==
  IF i > Len(names)
  THEN IF bestMatch = NoBest THEN NoMatch
       ELSE [found |-> TRUE, normalizedKey |-> bestMatch.key,
             originalName |-> NameOr(names, bestMatch.key, bestMatch.key),
             confidence |-> bestMatch.similarity]
  ELSE LET normalizedKey == names[i].key
           originalName == names[i].value
           lowerSearch == toLowerCase(teamName)
           lowerOriginal == toLowerCase(originalName)
           similarity == calculateSimilarity(lowerSearch, lowerOriginal)
           better ==
             IF (includes(lowerOriginal, lowerSearch) \/ includes(lowerSearch, lowerOriginal))
                /\ SimGT(similarity, 6, 10)
                /\ (bestMatch = NoBest \/ FracGT(similarity, bestMatch.similarity))
             THEN [key |-> normalizedKey, similarity |-> AtLeast85(similarity)]
             ELSE bestMatch
       IN IF ~MapHas(dataMap, normalizedKey)
          THEN BestByName(teamName, dataMap, names, i + 1, bestMatch)
          ELSE IF originalName # <<>> /\ lowerSearch = UniversityCore(lowerOriginal)
          THEN [found |-> TRUE, normalizedKey |-> normalizedKey,
                originalName |-> originalName, confidence |-> Frac(95, 100)]
          ELSE BestByName(teamName, dataMap, names, i + 1, better)

findBestMatch(teamName, dataMap, names) ==
  LET normalizedSearch == normalizeTeamName(teamName)
  IN IF MapHas(dataMap, normalizedSearch)
     THEN [found |-> TRUE, normalizedKey |-> normalizedSearch,
           originalName |-> NameOr(names, normalizedSearch, teamName),
           confidence |-> Frac(1, 1)]
     ELSE BestByName(teamName, dataMap, names, 1,
                     BestByKey(normalizedSearch, dataMap, 1, NoBest))

\* row?.season ?? null
SeasonOf(table, key) ==
  IF MapHas(table, key) THEN MapGet(table, key).season ELSE JsonNull

\* getTeamRankingsStats on the loaded data: the first of four tables that
\* gives a match, and the season columns of the matched key
StatsOf(teamName, data, names) ==
  LET m1 == findBestMatch(teamName, data["firstHalfPPG"], names)
      m2 == findBestMatch(teamName, data["secondHalfPPG"], names)
      m3 == findBestMatch(teamName, data["firstHalfAllowed"], names)
      m4 == findBestMatch(teamName, data["secondHalfAllowed"], names)
      match == IF m1.found THEN m1 ELSE IF m2.found THEN m2
               ELSE IF m3.found THEN m3 ELSE m4
  IN IF ~match.found THEN [null |-> TRUE]
     ELSE [teamName |-> teamName,
           matchedName |-> match.originalName,
           matchConfidence |-> match.confidence,
           firstHalf |-> [ppg |-> SeasonOf(data["firstHalfPPG"], match.normalizedKey),
                          pointsAllowed |-> SeasonOf(data["firstHalfAllowed"], match.normalizedKey),
                          margin |-> SeasonOf(data["firstHalfMargin"], match.normalizedKey)],
           secondHalf |-> [ppg |-> SeasonOf(data["secondHalfPPG"], match.normalizedKey),
                           pointsAllowed |-> SeasonOf(data["secondHalfAllowed"], match.normalizedKey),
                           margin |-> SeasonOf(data["secondHalfMargin"], match.normalizedKey)]]

\* the UTF-16 code unit of a character of the team names
CodeUnit(c) ==
  IF c \in UpperSet THEN 64 + (CHOOSE i \in 1..26 : UpperAlpha[i] = c)
  ELSE IF c \in LowerSet THEN 96 + (CHOOSE i \in 1..26 : LowerAlpha[i] = c)
  ELSE 32
\* a < b in the order of Array.prototype.sort without a comparator
RECURSIVE NameLess(_, _)
NameLess(a, b) ==
  IF a = <<>> THEN b # <<>>
  ELSE IF b = <<>> THEN FALSE
  ELSE IF CodeUnit(Head(a)) # CodeUnit(Head(b))
       THEN CodeUnit(Head(a)) < CodeUnit(Head(b))
       ELSE NameLess(Tail(a), Tail(b))
RECURSIVE SortedNames(_)
SortedNames(S) ==
  IF S = {} THEN <<>>
  ELSE LET least == CHOOSE x \in S : \A y \in S \ {x} : NameLess(x, y)
       IN <<least>> \o SortedNames(S \ {least})

\* the list getAllTeamRankingsTeams returns from the team-name cache
TeamsListed(names) == SortedNames({names[i].value : i \in 1..Len(names)})

\* no pure function is under examination
NoPure == [fn |-> "none"]

InitCommon ==
  /\ pure = NoPure
  /\ OtherStoresAtRest
  /\ callers = Requests
  /\ disk \in InitDisks
  /\ aliases = InitAliases
  /\ now \in StartTimes
  /\ ticks = 0
  /\ ncalls = 0
  /\ nfetches = 0

\* calls one after the other
Init ==
  /\ InitCommon
  /\ active = {1}
  /\ call = (1 :> IdleCall)
  /\ observe = FALSE

Next ==
  \/ \E c \in Slots : Begin(c)
  \/ \E c \in Slots : ScheduleNotOk(c)
  \/ \E c \in Slots : ScheduleThrows(c)
  \/ \E c \in Slots : ScheduleBodyFails(c)
  \/ \E c \in Slots : ScheduleOk(c)
  \/ \E c \in Slots : WalkEnds(c)
  \/ \E c \in Slots : Finish(c)
  \/ Tick

Spec == Init /\ [][Next]_vars

\* the same calls with the walk observed: failRun, sawRun3 and lateQuery
\* are kept
InitWalk ==
  /\ InitCommon
  /\ active = {1}
  /\ call = (1 :> IdleCall)
  /\ observe = TRUE

SpecWalk == InitWalk /\ [][Next]_vars

\* a step of a call that has begun: the answer to the request it awaits (the
\* scoreboard request ends within its 10 s timeout, a detail request within
\* 8 s), or the synchronous code up to the next await or the return
CallStep(c) ==
  \/ ScheduleNotOk(c)
  \/ ScheduleThrows(c)
  \/ ScheduleBodyFails(c)
  \/ ScheduleOk(c)
  \/ WalkEnds(c)
  \/ Finish(c)

\* the call awaits an answer of the feed or holds the result of its walk.
\* CallStep(c) is enabled in exactly these states: each of its disjuncts
\* assigns every variable, and their guards (pc = "walk" with InLoop, pc =
\* "walk" without, pc = "fetched") cover them.
Running(c) == c \in active /\ call[c].pc \in {"walk", "fetched"}

\* WF_vars(CallStep(c)) with ENABLED <<CallStep(c)>>_vars written as
\* Running(c): every request has a timeout (10 s for a scoreboard, 8 s for a
\* game detail), so an awaited answer arrives, and the event loop resumes a
\* call whose await has settled.
CallFair(c) == []<>(~Running(c)) \/ []<><<CallStep(c)>>_vars

\* the calls, each awaited request being answered
SpecLive == Init /\ [][Next]_vars /\ \A c \in Slots : CallFair(c)

\* ------------------------------------------------------ two calls at once
\* The predict route awaits getOrUpdateTeamStats for the home and the away
\* team together (Promise.all), and requests are served concurrently: two
\* calls for one team interleave at their awaits. The team's file was
\* written by an earlier fetch and is older than the TTL; it holds both
\* games of the feed, or only the older one.
PairRequests == { [teamId |-> S_arizona, teamName |-> N_Arizona] }
PairFiles ==
  { StatsCacheOf(S_arizona, N_Arizona,
                 SortByDate(<<GameStatsOf(Schedule[1]), GameStatsOf(Schedule[2])>>), 1),
    StatsCacheOf(S_arizona, N_Arizona, <<GameStatsOf(Schedule[2])>>, 1) }

InitPair ==
  /\ pure = NoPure
  /\ OtherStoresAtRest
  /\ callers = PairRequests
  /\ \E file \in PairFiles : disk = (S_arizona :> file)
  /\ aliases = InitAliases
  /\ now = 1 + CACHE_TTL + 1
  /\ ticks = 0
  /\ ncalls = 0
  /\ nfetches = 0
  /\ active = {1, 2}
  /\ call = (1 :> IdleCall) @@ (2 :> IdleCall)
  /\ observe = FALSE

SpecPair == InitPair /\ [][Next]_vars

\* ------------------------------------------------- the functions on their own
\* Each function of the two libraries that keeps no state is applied to
\* inputs drawn from bounded sets; `pure` holds the input and the result.
InitPure ==
  /\ pure = NoPure
  /\ OtherStoresAtRest
  /\ callers = Requests
  /\ disk = <<>>
  /\ aliases = InitAliases
  /\ now = 0
  /\ ticks = 0
  /\ ncalls = 0
  /\ nfetches = 0
  /\ active = {1}
  /\ call = (1 :> IdleCall)
  /\ observe = FALSE

\* cache directories for the resolver: each of three file names is absent,
\* holds a record, or holds a file that does not parse. The file 29.json is
\* kept under the numeric id of the team and is reached by its name only.
S_29 == <<"2","9">>
FileKeys == {S_ua, S_arizona, S_29}
FileOf(k) ==
  createEmptyCache(k, IF k = S_ua THEN N_UnivOfArizona ELSE N_Arizona, 0)
ResolverDisks ==
  UNION { { f \in [present -> {Unparsable} \cup {FileOf(k) : k \in FileKeys}] :
              \A k \in present : f[k] \in {Unparsable, FileOf(k)} } :
          present \in SUBSET FileKeys }
\* alias files for the resolver
AliasKeys == {S_ua, W_university}
AliasTargets == {S_arizona, S_29}
ResolverAliases ==
  UNION { [keys -> AliasTargets] : keys \in SUBSET AliasKeys }

ApplyTryFindTeamCache ==
  /\ pure = NoPure
  /\ \E d \in ResolverDisks, al \in ResolverAliases, r \in callers :
       pure' = [fn |-> "tryFindTeamCache", d |-> d, al |-> al,
                teamId |-> r.teamId, teamName |-> r.teamName,
                out |-> tryFindTeamCache(d, al, r.teamId, r.teamName)]
  /\ UNCHANGED <<reply, csv, rankings, disk, aliases, now, ticks, ncalls, nfetches, active, observe, callers, call>>

\* Candidates for findSimilarTeams as getAllCachedTeams lists them, in the
\* order of their file names. Against "Arizona" their similarities are 4/10,
\* 4/7, 7/14, 7/10, 7/13, 7/15, 3/8, 4/7 and 3/7: one is exactly 0.4, one
\* below, two are equal, others differ by less than 0.05, and no two differ
\* by exactly 0.05 (where the rounding of the floating-point subtraction
\* would decide).
CandidatePool ==
  << [teamId |-> <<"a","r","i","z","-","d","e","v","i","l">>,
      teamName |-> <<"A","r","i","z"," ","D","e","v","i","l">>,
      gamesCount |-> 6],
     [teamId |-> <<"a","r","i","z","-","s","t">>,
      teamName |-> <<"A","r","i","z"," ","S","t">>,
      gamesCount |-> 7],
     [teamId |-> <<"a","r","i","z","o","n","a","-","j","u","n","i","o","r">>,
      teamName |-> <<"A","r","i","z","o","n","a"," ","J","u","n","i","o","r">>,
      gamesCount |-> 8],
     [teamId |-> <<"a","r","i","z","o","n","a","-","s","t">>,
      teamName |-> <<"A","r","i","z","o","n","a"," ","S","t">>,
      gamesCount |-> 2],
     [teamId |-> <<"a","r","i","z","o","n","a","-","s","t","a","t","e">>,
      teamName |-> <<"A","r","i","z","o","n","a"," ","S","t","a","t","e">>,
      gamesCount |-> 5],
     [teamId |-> <<"a","r","i","z","o","n","a","-","w","e","s","t","e","r","n">>,
      teamName |-> <<"A","r","i","z","o","n","a"," ","W","e","s","t","e","r","n">>,
      gamesCount |-> 9],
     [teamId |-> <<"a","r","k","a","n","s","a","s">>,
      teamName |-> <<"A","r","k","a","n","s","a","s">>,
      gamesCount |-> 4],
     [teamId |-> <<"i","o","n","a">>,
      teamName |-> <<"I","o","n","a">>,
      gamesCount |-> 3],
     [teamId |-> <<"i","o","w","a">>,
      teamName |-> <<"I","o","w","a">>,
      gamesCount |-> 1] >>

\* the candidates of the pool whose index is in S, in the order of the pool
RECURSIVE PickFrom(_, _, _)
PickFrom(pool, S, i) ==
  IF i > Len(pool) THEN <<>>
  ELSE IF i \in S THEN <<pool[i]>> \o PickFrom(pool, S, i + 1)
  ELSE PickFrom(pool, S, i + 1)

\* the limits passed: two small ones and the default
SuggestionLimits == {1, 2, SUGGESTION_LIMIT}

ApplyFindSimilarTeams ==
  /\ pure = NoPure
  /\ \E S \in SUBSET (1..Len(CandidatePool)), limit \in SuggestionLimits :
       LET availableTeams == PickFrom(CandidatePool, S, 1)
       IN pure' = [fn |-> "findSimilarTeams", searchName |-> N_Arizona,
                   availableTeams |-> availableTeams, limit |-> limit,
                   out |-> findSimilarTeams(N_Arizona, availableTeams, limit)]
  /\ UNCHANGED <<reply, csv, rankings, disk, aliases, now, ticks, ncalls, nfetches, active, observe, callers, call>>

\* every string of at most n characters of the set chars
StringsUpTo(chars, n) == UNION {[1..k -> chars] : k \in 0..n}

\* names for normalizeTeamName: made of words the function removes or
\* rewrites (u, state), of fragments of such words (un + iv, sta + te), of
\* a word it keeps, and of characters it strips
NamePieces ==
  { <<"u">>, <<"u","n">>, <<"i","v">>, <<"s","t","a">>, <<"t","e">>,
    <<"S","t","a","t","e">>, <<"O","h","i","o">>, <<" ">>, <<"-">> }
RECURSIVE Concat(_)
Concat(pieces) ==
  IF pieces = <<>> THEN <<>> ELSE Head(pieces) \o Concat(Tail(pieces))
NameInputs == {Concat(pieces) : pieces \in StringsUpTo(NamePieces, MaxPieces)}

ApplyNormalizeTeamName ==
  /\ pure = NoPure
  /\ \E name \in NameInputs :
       pure' = [fn |-> "normalizeTeamName", name |-> name,
                once |-> normalizeTeamName(name),
                twice |-> normalizeTeamName(normalizeTeamName(name))]
  /\ UNCHANGED <<reply, csv, rankings, disk, aliases, now, ticks, ncalls, nfetches, active, observe, callers, call>>

\* names for calculateSimilarity: two letters, one of them in both cases
SimChars == {"a", "A", "b"}

ApplyCalculateSimilarity ==
  /\ pure = NoPure
  /\ \E name1, name2 \in StringsUpTo(SimChars, MaxSimLen) :
       pure' = [fn |-> "calculateSimilarity", name1 |-> name1, name2 |-> name2,
                out |-> calculateSimilarity(name1, name2)]
  /\ UNCHANGED <<reply, csv, rankings, disk, aliases, now, ticks, ncalls, nfetches, active, observe, callers, call>>

\* games for calculateAverages: the points of a half
HalfInputs == { [scored |-> 30, allowed |-> 41], [scored |-> 41, allowed |-> 35] }
GameInputs == [firstHalf : HalfInputs, secondHalf : HalfInputs]

ApplyCalculateAverages ==
  /\ pure = NoPure
  /\ \E games \in UNION {[1..k -> GameInputs] : k \in 0..MaxGames} :
       pure' = [fn |-> "calculateAverages", games |-> games,
                out |-> calculateAverages(games)]
  /\ UNCHANGED <<reply, csv, rankings, disk, aliases, now, ticks, ncalls, nfetches, active, observe, callers, call>>

\* games for buildStatsCache: the k-th has the id BuiltIds[k] and 2^k points
\* in the first half, so that an average tells which games went into it; its
\* date is one of three days or missing
BuiltIds == <<"g1", "g2", "g3", "g4", "g5", "g6", "g7">>
BuiltDates == {NoDate, 10, 20, 30}
BuiltGame(k, date) ==
  [gameId |-> BuiltIds[k], date |-> date,
   firstHalf |-> [scored |-> 2 ^ k, allowed |-> 30],
   secondHalf |-> [scored |-> 40, allowed |-> 35]]

\* buildStatsCache, then saveTeamStatsCache into an empty directory and
\* loadTeamStatsCache of the file
ApplyBuildStatsCache ==
  /\ pure = NoPure
  /\ \E n \in 0..MaxBuilt :
       \E dates \in [1..n -> BuiltDates] :
         LET games == [k \in 1..n |-> BuiltGame(k, dates[k])]
             built == buildStatsCache(S_arizona, N_Arizona, games, 1)
         IN pure' = [fn |-> "buildStatsCache", games |-> games, out |-> built,
                     reloaded |-> loadTeamStatsCache(
                                    saveTeamStatsCache(<<>>, built), S_arizona)]
  /\ UNCHANGED <<reply, csv, rankings, disk, aliases, now, ticks, ncalls, nfetches, active, observe, callers, call>>

\* the X of the names "University of X"
N_OhioState == <<"O","h","i","o"," ","S","t","a","t","e">>
N_thePacific == <<"t","h","e"," ","P","a","c","i","f","i","c">>
UniversityOfNames == {N_Arizona, N_Iowa, N_OhioState, N_thePacific}
N_UniversityOf == <<"U","n","i","v","e","r","s","i","t","y"," ","o","f"," ">>

\* the six files with the same rows
EveryFile(rows) ==
  ("firstHalfPPG" :> rows) @@ ("firstHalfAllowed" :> rows) @@
  ("firstHalfMargin" :> rows) @@ ("secondHalfPPG" :> rows) @@
  ("secondHalfAllowed" :> rows) @@ ("secondHalfMargin" :> rows)

\* "University of X" is normalized, expanded into its variants, resolved
\* against a cache directory that holds a file keyed by the slug of X, and
\* matched against ranking tables that hold X
ApplyUniversityOf ==
  /\ pure = NoPure
  /\ \E x \in UniversityOfNames :
       LET teamName == N_UniversityOf \o x
           slug == toSeoName(x)
       IN \E teamId \in {S_ua, toSeoName(teamName)} :
            LET d == (slug :> buildStatsCache(slug, x, <<GameStatsOf(Schedule[1])>>, 0))
                loaded == loadAllData(RankingsAtStart,
                            EveryFile(<<[rank |-> 1, team |-> x, season |-> Tenths(302)]>>), 0).store
            IN pure' = [fn |-> "universityOf", x |-> x, teamName |-> teamName,
                        teamId |-> teamId, slug |-> slug,
                        normalized |-> normalizeTeamName(teamName),
                        normalizedX |-> normalizeTeamName(x),
                        variants |-> generateSeoVariants(teamName),
                        found |-> tryFindTeamCache(d, NoAliasFile, teamId, teamName),
                        match |-> findBestMatch(teamName, loaded.cachedData["firstHalfPPG"],
                                                loaded.teamNameCache)]
  /\ UNCHANGED <<reply, csv, rankings, disk, aliases, now, ticks, ncalls, nfetches, active, observe, callers, call>>

NextPure ==
  \/ ApplyUniversityOf
  \/ ApplyBuildStatsCache
  \/ ApplyTryFindTeamCache
  \/ ApplyFindSimilarTeams
  \/ ApplyNormalizeTeamName
  \/ ApplyCalculateSimilarity
  \/ ApplyCalculateAverages

SpecPure == InitPure /\ [][NextPure]_vars

\* ------------------------------------------------- the cache-only check
\* what checkTeamStatsStatus leaves: the cache files and the fields of its
\* result
StatusOutcome_SavesEmpty(d, al, teamId, teamName, t) ==
  LET found == tryFindTeamCache(d, al, teamId, teamName)
      suggestions == findSimilarTeams(teamName, getAllCachedTeams(d), SUGGESTION_LIMIT)
  IN IF found.raised THEN [disk |-> d, result |-> Raised]
     ELSE IF found.found
     THEN [disk |-> d,
           result |-> [cache |-> found.cache, stale |-> isCacheStale(found.cache, t),
                       matched |-> TRUE, suggestions |-> NoSuggestions]]
     ELSE [disk |-> saveTeamStatsCache(d, createEmptyCache(teamId, teamName, t)),
           result |-> [cache |-> JsonNull, stale |-> FALSE, matched |-> FALSE,
                       suggestions |-> IF Len(suggestions) > 0
                                       THEN Suggested(suggestions)
                                       ELSE NoSuggestions]]

\* the result of checkTeamStatsStatus, from what its lookup and its search
\* for similar teams gave
StatusResult(found, suggestions, t) ==
  IF found.raised THEN Raised
  ELSE IF found.found
  THEN [cache |-> found.cache, stale |-> isCacheStale(found.cache, t),
        matched |-> TRUE, suggestions |-> NoSuggestions]
  ELSE [cache |-> JsonNull, stale |-> FALSE, matched |-> FALSE,
        suggestions |-> IF Len(suggestions) > 0
                        THEN Suggested(suggestions)
                        ELSE NoSuggestions]

StatusOutcome(d, al, teamId, teamName, t) ==
  [disk |-> d,
   result |-> StatusResult(tryFindTeamCache(d, al, teamId, teamName),
                           findSimilarTeams(teamName, getAllCachedTeams(d),
                                            SUGGESTION_LIMIT),
                           t)]

\* GET /api/team-stats/[teamId]?checkOnly=true: checkTeamStatsStatus
CheckTeamStatsStatus ==
  /\ reply.op # "checkTeamStatsStatus"
  /\ \E r \in callers :
       LET out == StatusOutcome(disk, aliases, r.teamId, r.teamName, now)
       IN /\ disk' = out.disk
          /\ reply' = [op |-> "checkTeamStatsStatus", teamId |-> r.teamId,
                        teamName |-> r.teamName, result |-> out.result]
  /\ UNCHANGED <<aliases, now, ticks, ncalls, nfetches, active, observe, callers,
                 pure, call, csv, rankings>>

\* the route answers with the result of the check: NextResponse.json
StatusReplied ==
  /\ reply.op = "checkTeamStatsStatus"
  /\ reply' = NoReply
  /\ UNCHANGED <<disk, aliases, now, ticks, ncalls, nfetches, active, observe,
                 callers, pure, call, csv, rankings>>

\* the teams asked about
StatusRequests ==
  { [teamId |-> S_arizona, teamName |-> N_Arizona],
    [teamId |-> S_ua, teamName |-> N_UnivOfArizona],
    [teamId |-> S_iona, teamName |-> N_Iona] }

InitStatus ==
  /\ pure = NoPure
  /\ OtherStoresAtRest
  /\ callers = StatusRequests
  /\ disk \in InitDisks
  /\ aliases = InitAliases
  /\ now = CACHE_TTL
  /\ ticks = 0
  /\ ncalls = 0
  /\ nfetches = 0
  /\ active = {1}
  /\ call = (1 :> IdleCall)
  /\ observe = FALSE

\* status checks between the steps of calls of getOrUpdateTeamStats
NextStatus ==
  \/ CheckTeamStatsStatus
  \/ StatusReplied
  \/ Next

SpecStatus == InitStatus /\ [][NextStatus]_vars

\* ------------------------------------------------------ the alias route
\* from.toLowerCase().replace(/\s+/g, '-')
NormalizedFrom(from) == DashSpaces(toLowerCase(from))

\* the text POST puts under the documentation key of a new file
CommentText == <<"M","a","p","s">>

\* PostedAliases that starts from an empty record whatever the file holds
PostedAliases_Alone(file, from, to) ==
  (NormalizedFrom(from) :> to) @@ (S_comment :> CommentText)

\* the record POST writes: the parsed file (the documentation key alone
\* when there is no file) with aliases[normalizedFrom] = to
PostedAliases(file, from, to) ==
  LET read == IF file = NoAliasFile THEN (S_comment :> CommentText) ELSE file
  IN (NormalizedFrom(from) :> to) @@ read

\* the record DELETE writes: the parsed file without the key
DeletedAliases(file, key) == [k \in DOMAIN file \ {key} |-> file[k]]

\* `from` and `to` of the requests: names in several spellings, the empty
\* string (a request without the field)
AliasFroms ==
  { <<>>, S_ua, <<"U","A">>, W_state,
    <<"O","h","i","o"," ","S","t","a","t","e">>,
    <<"o","h","i","o"," "," ","s","t","a","t","e">>,
    <<"o","h","i","o","-","s","t","a","t","e">> }
AliasTos == { <<>>, S_arizona, S_iowa }

\* POST /api/team-alias { from, to }
AliasPost ==
  /\ \E from \in AliasFroms, to \in AliasTos :
       IF from = <<>> \/ to = <<>>
       THEN /\ reply' = [op |-> "POST", from |-> from, to |-> to, status |-> 400,
                          key |-> <<>>]
            /\ UNCHANGED aliases
       ELSE /\ aliases' = PostedAliases(aliases, from, to)
            /\ reply' = [op |-> "POST", from |-> from, to |-> to, status |-> 200,
                          key |-> NormalizedFrom(from)]
  /\ UNCHANGED <<disk, now, ticks, ncalls, nfetches, active, observe, callers, pure,
                 call, csv, rankings>>

\* DELETE /api/team-alias { from }
AliasDelete ==
  /\ \E from \in AliasFroms :
       LET normalizedFrom == NormalizedFrom(from)
           status == IF from = <<>> THEN 400
                     ELSE IF aliases = NoAliasFile THEN 404
                     ELSE IF normalizedFrom \notin DOMAIN aliases THEN 404
                     ELSE 200
       IN /\ aliases' = IF status = 200 THEN DeletedAliases(aliases, normalizedFrom)
                         ELSE aliases
          /\ reply' = [op |-> "DELETE", from |-> from, to |-> <<>>, status |-> status,
                        key |-> IF status = 200 THEN normalizedFrom ELSE <<>>]
  /\ UNCHANGED <<disk, now, ticks, ncalls, nfetches, active, observe, callers, pure,
                 call, csv, rankings>>

\* the resolver looks a name up: resolveTeamId(teamId)
AliasResolve ==
  /\ \E teamId \in AliasFroms \ {<<>>} :
       reply' = [op |-> "resolve", from |-> teamId, to |-> <<>>, status |-> 200,
                 key |-> resolveTeamId(aliases, teamId)]
  /\ UNCHANGED <<disk, aliases, now, ticks, ncalls, nfetches, active, observe, callers,
                 pure, call, csv, rankings>>

InitAlias ==
  /\ pure = NoPure
  /\ callers = Requests
  /\ disk = <<>>
  /\ aliases \in {NoAliasFile, InitAliases}
  /\ now = 0
  /\ ticks = 0
  /\ ncalls = 0
  /\ nfetches = 0
  /\ active = {1}
  /\ call = (1 :> IdleCall)
  /\ observe = FALSE
  /\ OtherStoresAtRest

NextAlias ==
  \/ AliasPost
  \/ AliasDelete
  \/ AliasResolve

SpecAlias == InitAlias /\ [][NextAlias]_vars

\* ------------------------------------------ requests to the ranking store
MaxRankTicks == 2
\* the time that passes between two requests
RankDeltas == {1, RELOAD_INTERVAL, RELOAD_INTERVAL + 1}

RowsA == <<[rank |-> 1, team |-> N_Arizona, season |-> Tenths(302)],
           [rank |-> 2, team |-> N_Iowa, season |-> Tenths(287)]>>
RowsB == <<[rank |-> 1, team |-> N_Arizona, season |-> Tenths(311)]>>
RowsC == <<[rank |-> 1, team |-> N_Iona, season |-> Tenths(250)]>>
\* the states of lib/data/team-rankings: no file, six files with two
\* teams, six files with one of them, two files only
CsvDirs ==
  { NoCsv, EveryFile(RowsA), EveryFile(RowsB),
    ("firstHalfPPG" :> RowsB) @@ ("secondHalfMargin" :> RowsC) }

RankNames == {N_Arizona, N_Iowa, N_UnivOfArizona}

GetTeamRankingsStats ==
  /\ \E teamName \in RankNames :
       LET got == getData(rankings, csv, now)
       IN /\ rankings' = got.store
          /\ reply' = [op |-> "getTeamRankingsStats", log |-> got.log,
                        result |-> [stats |-> StatsOf(teamName, got.store.cachedData,
                                                      got.store.teamNameCache)]]
  /\ UNCHANGED <<disk, aliases, now, ticks, ncalls, nfetches, active, observe, callers,
                 pure, call, csv>>

GetAllTeamRankingsTeams ==
  /\ LET got == getData(rankings, csv, now)
     IN /\ rankings' = got.store
        /\ reply' = [op |-> "getAllTeamRankingsTeams", log |-> got.log,
                      result |-> [teams |-> TeamsListed(got.store.teamNameCache)]]
  /\ UNCHANGED <<disk, aliases, now, ticks, ncalls, nfetches, active, observe, callers,
                 pure, call, csv>>

IsTeamRankingsDataLoaded ==
  /\ LET got == getData(rankings, csv, now)
         data == got.store.cachedData
     IN /\ rankings' = got.store
        /\ reply' = [op |-> "isTeamRankingsDataLoaded", log |-> got.log,
                      result |-> [loaded |-> \/ Len(data["firstHalfPPG"]) > 0
                                             \/ Len(data["secondHalfPPG"]) > 0]]
  /\ UNCHANGED <<disk, aliases, now, ticks, ncalls, nfetches, active, observe, callers,
                 pure, call, csv>>

ReloadTeamRankingsData ==
  /\ LET got == reloadTeamRankingsData(rankings, csv, now)
     IN /\ rankings' = got.store
        /\ reply' = [op |-> "reloadTeamRankingsData", log |-> got.log,
                      result |-> [void |-> TRUE]]
  /\ UNCHANGED <<disk, aliases, now, ticks, ncalls, nfetches, active, observe, callers,
                 pure, call, csv>>

\* the files are replaced from outside (a new scrape); no request is served
CsvRewritten ==
  /\ \E dir \in CsvDirs \ {csv} : csv' = dir
  /\ reply' = NoReply
  /\ UNCHANGED <<disk, aliases, now, ticks, ncalls, nfetches, active, observe, callers,
                 pure, call, rankings>>

\* time passes; no request is served
RankTick ==
  /\ ticks < MaxRankTicks
  /\ \E delta \in RankDeltas : now' = now + delta
  /\ ticks' = ticks + 1
  /\ reply' = NoReply
  /\ UNCHANGED <<disk, aliases, ncalls, nfetches, active, observe, callers,
                 pure, call, csv, rankings>>

InitRank ==
  /\ pure = NoPure
  /\ callers = Requests
  /\ disk = <<>>
  /\ aliases = InitAliases
  /\ now \in {0, CACHE_TTL}
  /\ ticks = 0
  /\ ncalls = 0
  /\ nfetches = 0
  /\ active = {1}
  /\ call = (1 :> IdleCall)
  /\ observe = FALSE
  /\ reply = NoReply
  /\ csv \in CsvDirs
  /\ rankings = RankingsAtStart

NextRank ==
  \/ GetTeamRankingsStats
  \/ GetAllTeamRankingsTeams
  \/ IsTeamRankingsDataLoaded
  \/ ReloadTeamRankingsData
  \/ CsvRewritten
  \/ RankTick

SpecRank == InitRank /\ [][NextRank]_vars

\* -------------------------------------------------------------- properties
\* the age of the found cache when the call read the clock
Age(cl) == cl.began - cl.existing.lastUpdated

\* the call found a cache that holds games
HasGames(cl) ==
  /\ cl.pc # "idle"
  /\ cl.existing # NoCache
  /\ Len(cl.existing.games) > 0

\* two game lists hold the same games, each as often
SameGames(a, b) ==
  /\ Len(a) = Len(b)
  /\ {a[k] : k \in 1..Len(a)} = {b[k] : k \in 1..Len(b)}

\* the call has returned the found cache as it is, asked the feed nothing and
\* written nothing
ServedUntouched(cl) ==
  /\ cl.pc = "done"
  /\ cl.result = [cache |-> cl.existing, stale |-> FALSE, matched |-> TRUE,
                  suggestions |-> NoSuggestions]
  /\ ~cl.askedFeed
  /\ ~cl.wrote
  /\ cl.resolvedId \in DOMAIN disk
  /\ disk[cl.resolvedId] = cl.existing

\* C1: when a cache with games is stale and every schedule query of the
\* refresh fails, the call returns the previous cache with stale = true and
\* matched = true, and the persisted record is unchanged.
C1_StaleCacheKeptOnFailedRefresh ==
  \A c \in active :
    LET cl == call[c]
    IN (cl.pc = "done" /\ cl.branch = "stale" /\ cl.askedFeed /\ cl.allFailed) =>
         /\ cl.result.cache = cl.existing
         /\ cl.result.stale = TRUE
         /\ cl.result.matched = TRUE
         /\ cl.resolvedId \in DOMAIN disk
         /\ disk[cl.resolvedId] = cl.existing

\* C2 as stated: when no cache is found and the fetch returns zero games, a
\* zero-game record exists for the team afterwards.
C2_EmptyRecordPersisted ==
  \A c \in active :
    LET cl == call[c]
    IN (cl.pc = "done" /\ cl.branch = "nocache" /\ Len(cl.gameStats) = 0) =>
         /\ cl.teamId \in DOMAIN disk
         /\ Len(disk[cl.teamId].games) = 0

\* C2: when no cache is found and the fetch returns zero games, nothing is
\* written: the team has no record afterwards, the resolver still finds no
\* cache for the same arguments (so the next call takes the no-cache branch
\* again), and the call returns matched = false with an empty cache.
C2_NoRecordForEmptyFetch ==
  \A c \in active :
    LET cl == call[c]
    IN (cl.pc = "done" /\ cl.branch = "nocache" /\ Len(cl.gameStats) = 0) =>
         /\ ~cl.wrote
         /\ cl.teamId \notin DOMAIN disk
         /\ ~tryFindTeamCache(disk, aliases, cl.teamId, cl.teamName).found
         /\ cl.result.matched = FALSE
         /\ Len(cl.result.cache.games) = 0

C2_Witness ==
  \E c \in active :
    /\ call[c].pc = "done"
    /\ call[c].branch = "nocache"
    /\ call[c].askedFeed
    /\ Len(call[c].gameStats) = 0

\* C3: the walk issues no schedule query after three schedule queries in a
\* row have failed; a walk that never saw three failures in a row queries
\* all daysBack days; a 30-day walk in which every query fails issues
\* exactly three queries.
C3_BreakerAtThreeFailures ==
  \A c \in active :
    LET cl == call[c]
    IN cl.pc = "walk" =>
         /\ ~cl.lateQuery
         /\ (cl.failRun >= MAX_CONSECUTIVE_FAILURES) => ~InLoop(c)
         /\ (~InLoop(c) /\ ~cl.sawRun3) => (cl.i = cl.daysBack)
         /\ (~InLoop(c) /\ cl.allFailed /\ cl.daysBack = FULL_LOOKBACK) =>
              (cl.i = MAX_CONSECUTIVE_FAILURES)

\* C4 as stated: when no cache is found and the breaker halts the walk
\* before any game is collected, the call returns matched = true with an
\* empty game list.
C4_HaltedWalkMatched ==
  \A c \in active :
    LET cl == call[c]
    IN (cl.pc = "done" /\ cl.branch = "nocache" /\ cl.halted
        /\ Len(cl.gameStats) = 0) =>
         /\ cl.result.matched = TRUE
         /\ Len(cl.result.cache.games) = 0

\* C4: when no cache is found and the breaker halts the walk before any game
\* is collected, the call returns matched = false, stale = false and a newly
\* made empty cache for the requested id and name, and writes nothing.
C4_HaltedWalkNotMatched ==
  \A c \in active :
    LET cl == call[c]
    IN (cl.pc = "done" /\ cl.branch = "nocache" /\ cl.halted
        /\ Len(cl.gameStats) = 0) =>
         /\ cl.result.matched = FALSE
         /\ cl.result.stale = FALSE
         /\ cl.result.cache =
              createEmptyCache(cl.teamId, cl.teamName, cl.result.cache.lastUpdated)
         /\ ~cl.wrote
         /\ cl.teamId \notin DOMAIN disk

C4_Witness ==
  \E c \in active :
    /\ call[c].pc = "done"
    /\ call[c].branch = "nocache"
    /\ call[c].halted
    /\ Len(call[c].gameStats) = 0

\* C5 as stated: a cache with games is refreshed exactly when its age is at
\* least the TTL (and it is outside the grace window).
C5_StaleAtTTL ==
  \A c \in active :
    LET cl == call[c]
    IN HasGames(cl) =>
         ((cl.branch = "stale") <=>
            (Age(cl) >= CACHE_TTL /\ Age(cl) >= PRELOAD_GRACE_PERIOD))

\* C5: a cache with games is refreshed exactly when its age is greater than
\* the TTL: then the 7-day fetch is made, and at any age up to the TTL the
\* call returns without asking the feed.
C5_StaleAboveTTL ==
  \A c \in active :
    LET cl == call[c]
    IN HasGames(cl) =>
         /\ (cl.branch = "stale") <=> (Age(cl) > CACHE_TTL)
         /\ (cl.branch = "stale") =>
              /\ cl.daysBack = INCREMENTAL_LOOKBACK
              /\ (cl.pc = "done") => cl.askedFeed
         /\ (cl.branch # "stale") => (cl.pc = "done" /\ ~cl.askedFeed)

C5_Witness ==
  \E c \in active :
    /\ HasGames(call[c])
    /\ Age(call[c]) = CACHE_TTL + 1
    /\ call[c].branch = "stale"
    /\ call[c].pc = "done"
    /\ call[c].askedFeed

\* C6: a cache with games whose age is below the TTL is returned with
\* stale = false and matched = true, with no request to the feed and no
\* write.
C6_FreshCacheServed ==
  \A c \in active :
    (HasGames(call[c]) /\ Age(call[c]) < CACHE_TTL) => ServedUntouched(call[c])

C6_Witness ==
  \E c \in active :
    /\ HasGames(call[c])
    /\ Age(call[c]) = PRELOAD_GRACE_PERIOD
    /\ call[c].pc = "done"
    /\ call[c].result.stale = FALSE

\* C7: a cache with games that was updated within the 10-minute grace period
\* is returned with stale = false and matched = true, with no request to the
\* feed and no write.
C7_GraceCacheServed ==
  \A c \in active :
    (HasGames(call[c]) /\ Age(call[c]) < PRELOAD_GRACE_PERIOD) =>
      ServedUntouched(call[c])

C7_Witness ==
  \E c \in active :
    /\ HasGames(call[c])
    /\ Age(call[c]) = PRELOAD_GRACE_PERIOD \div 2
    /\ call[c].pc = "done"
    /\ call[c].result.stale = FALSE

FetchedFromNothing(cl) ==
  /\ cl.pc = "done"
  /\ cl.branch = "nocache"
  /\ Len(cl.gameStats) > 0

C10_DataStaleOrSuggestions ==
  \A c \in active :
    LET cl == call[c]
    IN cl.pc = "done" =>
         \/ Len(cl.result.cache.games) > 0
         \/ cl.result.stale = TRUE /\ cl.result.cache = cl.existing
         \/ cl.result.suggestions.defined /\ Len(cl.result.suggestions.teams) > 0

\* C10: every result has at least one game, or is the previous cache with
\* stale = true, or carries a non-empty list of suggestions, or is the found
\* zero-game cache returned as matched after a fetch that found no game, or
\* is an unmatched empty cache without suggestions because no cached team is
\* similar to the requested name.
C10_DataStaleSuggestionsOrEmpty ==
  \A c \in active :
    LET cl == call[c]
    IN cl.pc = "done" =>
         \/ Len(cl.result.cache.games) > 0
         \/ cl.result.stale = TRUE /\ cl.result.cache = cl.existing
         \/ cl.result.suggestions.defined /\ Len(cl.result.suggestions.teams) > 0
         \/ /\ cl.branch = "empty"
            /\ Len(cl.gameStats) = 0
            /\ cl.result.cache = cl.existing
            /\ cl.result.matched = TRUE
         \/ /\ cl.branch = "nocache"
            /\ Len(cl.gameStats) = 0
            /\ cl.result.matched = FALSE
            /\ cl.result.suggestions = NoSuggestions
            /\ LET cachedTeams == getAllCachedTeams(disk)
               IN \A k \in 1..Len(cachedTeams) :
                    ~SimGT(calculateSimilarity(cl.teamName, cachedTeams[k].teamName),
                           4, 10)

C10_Witness ==
  \E c \in active :
    /\ call[c].pc = "done"
    /\ call[c].result.matched = FALSE
    /\ call[c].result.suggestions = NoSuggestions
    /\ Len(call[c].result.cache.games) = 0

\* a TeamStatsCache record
IsCache(cache) ==
  /\ DOMAIN cache = {"teamId", "teamName", "lastUpdated", "games",
                     "seasonAverages", "last5Averages"}
  /\ Len(cache.games) >= 0

\* C11: getOrUpdateTeamStats never raises: whatever the schedule feed does
\* and whatever cache files it finds (none, unparsable, empty, fresh, stale),
\* a call that has begun is never ended by an exception, it reaches its
\* return, and what it returns is a cache together with the boolean flags
\* stale and matched.
C11_NeverRaises ==
  /\ [](\A c \in active :
          /\ call[c].pc # "raised"
          /\ (call[c].pc = "done") =>
               /\ IsCache(call[c].result.cache)
               /\ call[c].result.stale \in BOOLEAN
               /\ call[c].result.matched \in BOOLEAN)
  /\ \A c \in Slots : Running(c) ~> (c \in active /\ call[c].pc = "done")

\* a call that met the unparsable file and a feed of which every query failed
C11_Witness ==
  \E c \in active :
    /\ call[c].pc = "done"
    /\ call[c].teamId \in DOMAIN disk
    /\ disk[call[c].teamId] = Unparsable
    /\ call[c].askedFeed
    /\ call[c].allFailed

\* what each strategy of the resolver would find, taken on its own
Loads(d, id) == loadTeamStatsCache(d, id) # NoCache
ExactHit(d, teamId) == Loads(d, teamId)
AliasHit(d, al, id) ==
  resolveTeamId(al, id) # id /\ Loads(d, resolveTeamId(al, id))
VariantHit(d, al, v) == Loads(d, v) \/ AliasHit(d, al, v)
FuzzyHits(d, teamName) ==
  LET cachedTeams == getAllCachedTeams(d)
  IN {k \in 1..Len(cachedTeams) :
        /\ isLikelyMatch(teamName, cachedTeams[k].teamName)
        /\ Loads(d, cachedTeams[k].teamId)}
SetMin(S) == CHOOSE x \in S : \A y \in S : x <= y
\* the strategy and the id the claimed order gives
FirstHit(d, al, teamId, teamName) ==
  LET variants == generateSeoVariants(teamName)
      hitting == {i \in 1..Len(variants) : VariantHit(d, al, variants[i])}
      cachedTeams == getAllCachedTeams(d)
  IN IF ExactHit(d, teamId) THEN [strategy |-> "exact", id |-> teamId]
     ELSE IF AliasHit(d, al, teamId)
     THEN [strategy |-> "alias", id |-> resolveTeamId(al, teamId)]
     ELSE IF hitting # {}
     THEN LET v == variants[SetMin(hitting)]
          IN IF Loads(d, v) THEN [strategy |-> "variant", id |-> v]
             ELSE [strategy |-> "variantAlias", id |-> resolveTeamId(al, v)]
     ELSE IF FuzzyHits(d, teamName) # {}
     THEN [strategy |-> "fuzzy",
           id |-> cachedTeams[SetMin(FuzzyHits(d, teamName))].teamId]
     ELSE [strategy |-> "none", id |-> <<>>]
ReadsOf(reads, op) == {k \in 1..Len(reads) : reads[k].op = op}

\* C12: tryFindTeamCache tries exact id, alias of the raw id, the name
\* variants in order (each directly, then through its alias), and the fuzzy
\* scan; the first strategy that finds a record decides the result and
\* nothing is read from the stores after it: on an exact hit the only access
\* is the load of the raw id (the alias file is never read), on an alias hit
\* no variant is loaded, and the directory is listed only when every variant
\* missed.
C12_FirstStrategyWins ==
  pure.fn = "tryFindTeamCache" =>
    LET out == pure.out
        first == FirstHit(pure.d, pure.al, pure.teamId, pure.teamName)
        reads == out.reads
    IN /\ ~out.raised
       /\ out.strategy = first.strategy
       /\ out.found <=> first.strategy # "none"
       /\ out.found =>
            /\ out.resolvedId = first.id
            /\ out.cache = pure.d[first.id]
            /\ reads[Len(reads)] = [op |-> "load", key |-> first.id]
       /\ reads[1] = [op |-> "load", key |-> pure.teamId]
       /\ out.strategy = "exact" => Len(reads) = 1
       /\ Len(reads) > 1 => reads[2] = [op |-> "aliases", key |-> pure.teamId]
       /\ out.strategy = "alias" => Len(reads) = 3
       /\ out.strategy \in {"exact", "alias", "variant", "variantAlias"} =>
            ReadsOf(reads, "list") = {}
       /\ \A k \in ReadsOf(reads, "list") :
            /\ \A j \in ReadsOf(reads, "aliases") : j < k
            /\ \A j \in (k + 1)..Len(reads) : reads[j].op = "load"

\* a request whose raw id names a record and is also an alias of another one
C12_Witness ==
  /\ pure.fn = "tryFindTeamCache"
  /\ ExactHit(pure.d, pure.teamId)
  /\ AliasHit(pure.d, pure.al, pure.teamId)
  /\ pure.out.strategy = "exact"
  /\ pure.out.cache # pure.d[resolveTeamId(pure.al, pure.teamId)]

\* no two records of the list carry the same gameId
UniqueGameIds(games) ==
  \A i, j \in 1..Len(games) : games[i].gameId = games[j].gameId => i = j
GameIds(games) == {games[k].gameId : k \in 1..Len(games)}

\* C13: whatever calls have run (a refresh whose 7-day walk returns games the
\* file already holds, refreshes running together), no cache file holds two
\* game records with the same gameId.
C13_NoDuplicateGameIds ==
  \A k \in DOMAIN disk : disk[k] # Unparsable => UniqueGameIds(disk[k].games)

\* a refresh has written the file after its walk returned a game the file
\* already held
C13_Witness ==
  \E c \in active :
    /\ call[c].pc = "done"
    /\ call[c].branch = "stale"
    /\ call[c].wrote
    /\ GameIds(call[c].gameStats) \cap GameIds(call[c].existing.games) # {}

\* C14: in every step, whatever the interleaving of the calls, every cache
\* file stays and its lastUpdated does not decrease.
C14_LastUpdatedNeverDecreases ==
  [][\A k \in DOMAIN disk :
       /\ k \in DOMAIN disk'
       /\ (disk[k] # Unparsable /\ disk'[k] # Unparsable) =>
             disk'[k].lastUpdated >= disk[k].lastUpdated]_vars

\* two calls have written the file one after the other, at different times
C14_Witness ==
  /\ \A c \in active : call[c].pc = "done" /\ call[c].wrote
  /\ call[1].result.cache.lastUpdated # call[2].result.cache.lastUpdated
  /\ disk[S_arizona].lastUpdated > 1

\* both calls found the same stale record, so both read the file before
\* either wrote it, and both have finished their refresh
BothRefreshed ==
  /\ active = {1, 2}
  /\ \A c \in active :
       call[c].pc = "done" /\ call[c].branch = "stale" /\ call[c].wrote
  /\ call[1].existing = call[2].existing
  /\ call[1].resolvedId = call[2].resolvedId

\* C15: when two refreshes of one team run together, both having read the
\* stale record before either writes, the file afterwards is the whole
\* record one of them built, its gameIds are unique, and it holds every game
\* the file held before the two calls.
C15_ConcurrentRefreshes ==
  BothRefreshed =>
    LET final == disk[call[1].resolvedId]
    IN /\ final \in {call[1].result.cache, call[2].result.cache}
       /\ UniqueGameIds(final.games)
       /\ GameIds(call[1].existing.games) \subseteq GameIds(final.games)

\* the two refreshes built different records (one walk found the new game,
\* the other did not)
C15_Witness ==
  /\ BothRefreshed
  /\ GameIds(call[1].result.cache.games) # GameIds(call[2].result.cache.games)

\* the candidates findSimilarTeams keeps, with their similarity to the name
SimilarityTo(searchName, team) == calculateSimilarity(searchName, team.teamName)
AboveThreshold(sim) == sim.den > 0 /\ 10 * sim.num > 4 * sim.den
Kept(searchName, availableTeams) ==
  {k \in 1..Len(availableTeams) :
     AboveThreshold(SimilarityTo(searchName, availableTeams[k]))}

\* C16: every suggestion of findSimilarTeams is one of the candidates, with
\* a similarity to the searched name strictly above 0.4, and there are at
\* most `limit` of them (5 by default).
C16_SuggestionsAboveThreshold ==
  pure.fn = "findSimilarTeams" =>
    /\ Len(pure.out) <= pure.limit
    /\ \A k \in 1..Len(pure.out) :
         /\ AboveThreshold(pure.out[k].similarity)
         /\ \E j \in 1..Len(pure.availableTeams) :
              /\ pure.out[k].teamId = pure.availableTeams[j].teamId
              /\ pure.out[k].similarity =
                   SimilarityTo(pure.searchName, pure.availableTeams[j])

\* more than five candidates pass, one candidate sits exactly at 0.4, and
\* the default limit cuts the list
C16_Witness ==
  /\ pure.fn = "findSimilarTeams"
  /\ pure.limit = SUGGESTION_LIMIT
  /\ Cardinality(Kept(pure.searchName, pure.availableTeams)) > SUGGESTION_LIMIT
  /\ \E j \in 1..Len(pure.availableTeams) :
       LET sim == SimilarityTo(pure.searchName, pure.availableTeams[j])
       IN 10 * sim.num = 4 * sim.den
  /\ Len(pure.out) = SUGGESTION_LIMIT

\* x - y of two similarities, up to a positive factor
SimDiff(x, y) == x.num * y.den - y.num * x.den
\* |x - y| < 0.05
WithinTolerance(x, y) ==
  LET diff == SimDiff(x, y)
  IN 20 * (IF diff < 0 THEN -diff ELSE diff) < x.den * y.den
\* the order the comparator asks for: a is to come before b
Precedes(a, b) ==
  IF WithinTolerance(a.similarity, b.similarity)
  THEN a.gamesCount > b.gamesCount
  ELSE SimDiff(a.similarity, b.similarity) > 0
\* the comparator is a consistent ordering of the candidates that are kept
\* (Array.prototype.sort leaves the order to the engine when it is not)
ConsistentComparator(searchName, availableTeams) ==
  LET kept == {[gamesCount |-> availableTeams[k].gamesCount,
                similarity |-> SimilarityTo(searchName, availableTeams[k])] :
               k \in Kept(searchName, availableTeams)}
      Same(a, b) == ~Precedes(a, b) /\ ~Precedes(b, a)
  IN \A a, b, c \in kept :
       /\ (Precedes(a, b) /\ Precedes(b, c)) => Precedes(a, c)
       /\ (Same(a, b) /\ Same(b, c)) => Same(a, c)

C18_NormalizeIdempotent ==
  pure.fn = "normalizeTeamName" => pure.twice = pure.once

\* C19: calculateSimilarity(x, x) is 1 for every x, the empty string
\* included, and every value of calculateSimilarity lies in [0, 1].
C19_SimilarityReflexiveBounded ==
  pure.fn = "calculateSimilarity" =>
    /\ pure.out.den > 0
    /\ 0 <= pure.out.num
    /\ pure.out.num <= pure.out.den
    /\ pure.name1 = pure.name2 => pure.out.num = pure.out.den

\* C20: calculateAverages reports the length of the list as gamesPlayed of
\* both halves, no number it returns is the NaN of a division by zero, and
\* for the empty list gamesPlayed, scored and allowed are 0 in both halves.
C20_GamesPlayedIsLength ==
  pure.fn = "calculateAverages" =>
    \A half \in {"firstHalf", "secondHalf"} :
      /\ pure.out[half].gamesPlayed = Len(pure.games)
      /\ ~pure.out[half].scored.nan
      /\ ~pure.out[half].allowed.nan
      /\ Len(pure.games) = 0 =>
           /\ pure.out[half].scored = Tenths(0)
           /\ pure.out[half].allowed = Tenths(0)

\* the averages of the empty list
C20_Witness ==
  /\ pure.fn = "calculateAverages"
  /\ Len(pure.games) = 0
  /\ pure.out.firstHalf.gamesPlayed = 0

\* a game carries a date that parses
Dated(g) == g.date # NoDate
\* a is a game of a later date than b
MoreRecent(a, b) == Dated(a) /\ Dated(b) /\ a.date > b.date
\* no game of the list comes after a game of an earlier date
DateDescending(games) ==
  \A i, j \in 1..Len(games) : i < j => ~MoreRecent(games[j], games[i])
\* the games with index in S are the most recent ones: none of the others
\* has a later date than one of them
MostRecent(games, S) ==
  \A i \in S, j \in (1..Len(games)) \ S : ~MoreRecent(games[j], games[i])

\* C21: a cache built from games of distinct ids, saved and loaded again,
\* holds the same game ids in date-descending order, and its last5Averages
\* are the averages of the five games of the most recent dates (of all the
\* games when there are fewer than five).
C21_RoundTripKeepsGamesAndLast5 ==
  pure.fn = "buildStatsCache" =>
    LET games == pure.games
        reloaded == pure.reloaded
    IN /\ reloaded # NoCache
       /\ Len(reloaded.games) = Len(games)
       /\ GameIds(reloaded.games) = GameIds(games)
       /\ DateDescending(reloaded.games)
       /\ \E S \in SUBSET (1..Len(games)) :
            /\ Cardinality(S) = Min2(LAST_GAMES, Len(games))
            /\ MostRecent(games, S)
            /\ reloaded.last5Averages = calculateAverages(PickFrom(games, S, 1))

\* C21 for games that all carry a date
C21_DatedGamesRoundTrip ==
  (pure.fn = "buildStatsCache" /\ \A k \in 1..Len(pure.games) : Dated(pure.games[k]))
    => C21_RoundTripKeepsGamesAndLast5

\* a key in the form the store keeps: no upper-case letter, no whitespace
IsNormalizedKey(k) == \A i \in 1..Len(k) : k[i] \notin UpperSet /\ ~IsSpace(k[i])
\* the keys and values the alias file holds
StoredAliases(file) == IF file = NoAliasFile THEN <<>> ELSE file

\* C22: a set stores its alias under a normalized key (lower case, every run
\* of whitespace one hyphen), the value of that key is the one of this last
\* set, and every other key of the file keeps its value.
C22_SetNormalizesAndOverwrites ==
  [][(reply'.op = "POST" /\ reply'.status = 200) =>
       LET before == StoredAliases(aliases)
           after == StoredAliases(aliases')
           key == reply'.key
       IN /\ IsNormalizedKey(key)
          /\ Len(key) <= Len(reply'.from)
          /\ toLowerCase(reply'.from) = reply'.from /\ (\A i \in 1..Len(key) : ~IsSpace(reply'.from[i]))
               => key = reply'.from
          /\ key \in DOMAIN after
          /\ after[key] = reply'.to
          /\ \A k \in DOMAIN before \ {key} : k \in DOMAIN after /\ after[k] = before[k]
          /\ DOMAIN after \subseteq DOMAIN before \cup {key, S_comment}]_vars

\* a set of a name with upper case and whitespace has replaced the value of
\* its key, next to another alias
C22_Witness ==
  /\ reply.op = "POST"
  /\ reply.status = 200
  /\ reply.from # reply.key
  /\ \E i \in 1..Len(reply.from) : IsSpace(reply.from[i])
  /\ aliases[reply.key] = S_iowa
  /\ S_ua \in DOMAIN aliases
  /\ aliases[S_ua] = S_arizona

\* C27: after set(rawName, id), resolveTeamId(rawName) returns id, whatever
\* upper case or whitespace rawName holds.
C27_SetThenResolve ==
  [][(/\ reply.op = "POST"
      /\ reply.status = 200
      /\ reply'.op = "resolve"
      /\ reply'.from = reply.from) => reply'.key = reply.to]_vars

\* C27 for names without whitespace
C27_SetThenResolveNoSpace ==
  [][(/\ reply.op = "POST"
      /\ reply.status = 200
      /\ \A i \in 1..Len(reply.from) : ~IsSpace(reply.from[i])
      /\ reply'.op = "resolve"
      /\ reply'.from = reply.from) => reply'.key = reply.to]_vars

\* the requests that read the tables through getData
LookupOps == {"getTeamRankingsStats", "getAllTeamRankingsTeams",
              "isTeamRankingsDataLoaded"}
\* the teams of the rows of the files
TeamsInFiles(files) ==
  UNION {{files[name][i].team : i \in 1..Len(files[name])} : name \in DOMAIN files}
\* data holds one table per file name, keyed by the normalized names of the
\* teams that file holds now
LoadedFrom(data, files) ==
  /\ data # NoTable
  /\ DOMAIN data = {CSV_FILES[i] : i \in 1..Len(CSV_FILES)}
  /\ \A name \in DOMAIN data :
       {data[name][i].key : i \in 1..Len(data[name])} =
         IF name \in DOMAIN files
         THEN {normalizeTeamName(files[name][i].team) : i \in 1..Len(files[name])}
         ELSE {}

\* C23: a lookup reloads the tables from the files exactly when there is no
\* table in memory or the table was loaded more than five minutes ago; a
\* lookup with a younger table reloads nothing, reloadTeamRankingsData
\* always reloads, and no other step changes the store.
C23_ReloadsLazily ==
  [][LET lookup == reply'.op \in LookupOps
         explicit == reply'.op = "reloadTeamRankingsData"
         reloaded == (lookup \/ explicit) /\ reply'.log # <<>>
         absent == rankings.cachedData = NoTable
         older == now > rankings.lastLoadTime + 300000
     IN /\ lookup => (reloaded <=> (absent \/ older))
        /\ explicit => reloaded
        /\ reloaded => /\ rankings'.lastLoadTime = now
                        /\ LoadedFrom(rankings'.cachedData, csv)
        /\ ~reloaded => rankings' = rankings]_vars

\* a lookup has been answered from a table that is exactly five minutes
\* old, without a reload, although the files have changed since the load
C23_Witness ==
  /\ reply.op \in LookupOps
  /\ reply.log = <<>>
  /\ now - rankings.lastLoadTime = RELOAD_INTERVAL
  /\ ~LoadedFrom(rankings.cachedData, csv)

\* C29: after a reload from the files as they are now,
\* getAllTeamRankingsTeams lists exactly the teams these files hold.
C29_ListsExactlyCurrentTeams ==
  [][(/\ reply'.op = "getAllTeamRankingsTeams"
      /\ reply'.log # <<>> \/ reply.op = "reloadTeamRankingsData")
       => {reply'.result.teams[i] : i \in 1..Len(reply'.result.teams)}
            = TeamsInFiles(csv')]_vars

\* C29, the half that holds: every team of the current files is listed
C29_ListsCurrentTeams ==
  [][(/\ reply'.op = "getAllTeamRankingsTeams"
      /\ reply'.log # <<>> \/ reply.op = "reloadTeamRankingsData")
       => TeamsInFiles(csv') \subseteq
            {reply'.result.teams[i] : i \in 1..Len(reply'.result.teams)}]_vars

\* C24: for a name "University of X" the normalized forms of the name and
\* of X differ, the variants of the name include the slug of X, resolving
\* the name against a cache keyed by that slug succeeds, and the match has
\* a confidence of at least 0.9.
C24_UniversityOfResolves ==
  pure.fn = "universityOf" =>
    /\ pure.normalized # pure.normalizedX
    /\ \E i \in 1..Len(pure.variants) : pure.variants[i] = pure.slug
    /\ pure.found.found
    /\ pure.found.resolvedId = pure.slug
    /\ pure.match.found
    /\ SimGE(pure.match.confidence, 9, 10)

\* C24 as far as it holds: the normalized forms differ, the cache keyed by
\* the slug is found, the slug is among the variants for an X that ends in
\* no stripped suffix and starts with no stripped prefix; a match of the
\* ranking tables, where there is one, is X with a confidence below 0.9
C24_UniversityOfFound ==
  pure.fn = "universityOf" =>
    /\ pure.normalized # pure.normalizedX
    /\ pure.x \in {N_Arizona, N_Iowa}
         => \E i \in 1..Len(pure.variants) : pure.variants[i] = pure.slug
    /\ pure.found.found
    /\ pure.found.resolvedId = pure.slug
    /\ pure.match.found => /\ pure.match.originalName = pure.x
                            /\ ~SimGE(pure.match.confidence, 9, 10)

\* C25: a network call of the day-walk that fails or times out, a schedule
\* query or a game-detail request, adds one to the consecutive-failure count
\* of the breaker.
C25_EveryFailedCallCounted ==
  [][\A c \in active :
       (/\ call[c].pc = "walk"
        /\ call'[c].pc = "walk"
        /\ call'[c].i # call[c].i
        /\ call'[c].failedCalls > 0)
         => call'[c].consecutiveFailures
              = call[c].consecutiveFailures + call'[c].failedCalls]_vars

\* C25 as far as it holds: a failed schedule query leaves the count at one
\* at least, and at one more than before at most
C25_FailedScheduleQueryCounted ==
  [][\A c \in active :
       (/\ call[c].pc = "walk"
        /\ call'[c].pc = "walk"
        /\ call'[c].i # call[c].i
        /\ call'[c].failRun > 0)
         => /\ call'[c].failedCalls = 1
            /\ call'[c].consecutiveFailures >= 1
            /\ call'[c].consecutiveFailures <= call[c].consecutiveFailures + 1]_vars

\* C25 for the game-detail requests alone: a day whose schedule query
\* succeeded and whose detail requests failed leaves the count above zero
C25_FailedDetailCounted ==
  [][\A c \in active :
       (/\ call[c].pc = "walk"
        /\ call'[c].pc = "walk"
        /\ call'[c].i # call[c].i
        /\ call'[c].failRun = 0
        /\ call'[c].failedCalls > 0)
         => call'[c].consecutiveFailures > 0]_vars

\* C26: the day-walk queries today, then the day before, and so on: the
\* offsets of its schedule queries are 0, 1, 2, ... without a gap or a
\* repeat, and there are at most daysBack of them.
C26_DaysDescendingOnce ==
  \A c \in active :
    call[c].pc = "walk" =>
      LET q == call[c].queried
      IN /\ Len(q) <= call[c].daysBack
         /\ \A k \in 1..Len(q) : q[k] = k - 1
         /\ \A j, k \in 1..Len(q) : j < k => q[j] < q[k]

\* a walk has queried every day of a 7-day lookback, failed days among
\* them, and is at the end of its loop
C26_Witness ==
  \E c \in active :
    /\ call[c].pc = "walk"
    /\ observe
    /\ call[c].daysBack = INCREMENTAL_LOOKBACK
    /\ Len(call[c].queried) = INCREMENTAL_LOOKBACK
    /\ call[c].consecutiveFailures = 2
    /\ ~call[c].allFailed

\* C28: no game is dropped from a persisted cache: in every step, whatever
\* the interleaving of the calls, a cache file that is rewritten still holds
\* every gameId it held before.
C28_PersistedGamesOnlyGrow ==
  [][\A k \in DOMAIN disk :
       disk[k] # Unparsable =>
         /\ k \in DOMAIN disk'
         /\ disk'[k] # Unparsable
         /\ GameIds(disk[k].games) \subseteq GameIds(disk'[k].games)]_vars

\* C28 for a call that finishes with the file as it found it: the file
\* it writes holds every game of the file it read
C28_WriterKeepsWhatItRead ==
  \A c \in active :
    (call[c].pc = "done" /\ call[c].wrote /\ call[c].existing # NoCache) =>
      GameIds(call[c].existing.games) \subseteq GameIds(call[c].result.cache.games)

\* C30: checkTeamStatsStatus issues no request to the feed and leaves the
\* cache files and the alias file as they are; it returns matched = true
\* with a cache of the store and the flag now - lastUpdated > TTL, or
\* matched = false with a null cache and stale = false.
C30_StatusCheckReadOnly ==
  [][(reply'.op = "checkTeamStatsStatus" /\ reply' # reply) =>
       LET res == reply'.result
       IN /\ disk' = disk
          /\ aliases' = aliases
          /\ nfetches' = nfetches
          /\ call' = call
          /\ res # Raised
          /\ res.matched =>
               /\ \E k \in DOMAIN disk : disk[k] # Unparsable /\ disk[k] = res.cache
               /\ res.stale <=> (now - res.cache.lastUpdated > 6 * 60 * 60 * 1000)
          /\ ~res.matched =>
               /\ res.cache = JsonNull
               /\ ~res.stale
               /\ ~(reply'.teamId \in DOMAIN disk /\ disk[reply'.teamId] # Unparsable)]_vars

\* a check has returned a cache with games that is past the TTL, while a
\* call of getOrUpdateTeamStats is in its walk
C30_Witness ==
  /\ reply.op = "checkTeamStatsStatus"
  /\ reply.result.matched
  /\ reply.result.stale
  /\ Len(reply.result.cache.games) > 0
  /\ \E c \in active : call[c].pc = "walk"

\* a check has found no cache and returned suggestions
C30_WitnessUnmatched ==
  /\ reply.op = "checkTeamStatsStatus"
  /\ ~reply.result.matched
  /\ reply.result.suggestions.defined

====
